---- MODULE Spec2Model ----
(***************************************************************************)
(* London System trainer: the game-state manager (hooks/useChessGame.ts),  *)
(* the move-quality classifier (lib/services/moveAnalysis.ts) and the      *)
(* opponent move selector (lib/types.ts, getComputerMove).                 *)
(*                                                                         *)
(* The rules engine (chess.js) is an external library.  It is represented  *)
(* by a finite rule book: a fragment of positions, each with its ordered   *)
(* list of legal moves.  The opening positions are genuine; the endgame    *)
(* positions are compressed so that a capture, a check, a promotion, a     *)
(* checkmate by either side, a stalemate and draws that still have legal   *)
(* moves are all within a few plies of the initial position.  Squares,     *)
(* coordinate moves and algebraic notation are sequences of characters,    *)
(* so that slicing, concatenation and character search are the string      *)
(* operations of the source.                                               *)
(***************************************************************************)
EXTENDS Integers, Sequences, FiniteSets, TLC

VARIABLES
  game,            \* the Chess instance of useChessGame: [pos, hist]
  boardKey,        \* useChessGame: re-render counter
  selectedSquare,  \* useChessGame: selected square or Null
  legalMoves,      \* useChessGame: destinations of the selected piece
  lastMove,        \* useChessGame: last-move marker or Null
  op,              \* the last call: [name, legal, ok]
  opPrev,          \* the call before it
  ret,             \* what the last call returned
  pre,             \* snapshot of the manager before the last call
  clsIn,           \* classifyMove: the eval drop given
  clsOut,          \* classifyMove: the classification returned, or Null
  build,           \* which of the two copies of moveAnalysis is built
  an,              \* analyzeMoveQuality in flight: its locals, or Null
  anRet,           \* what the last analyzeMoveQuality returned
  anLog,           \* the last analysis: its inputs and why it failed
  moveQualities,   \* PracticeScreen: the accumulated MoveQuality list
  lastMoveQuality, \* PracticeScreen: the displayed quality or Null
  analyzingMove,   \* PracticeScreen: the analyzing flag
  ai,              \* getComputerMove in flight: its locals, or Null
  aiRet,           \* what the last getComputerMove returned
  aiLog,           \* the last getComputerMove: its inputs and path
  result,          \* PracticeScreen: the PracticeResult
  replayState,     \* PracticeScreen: the ReplayState
  replayTimer,     \* the auto-play timer: time left, or Null
  effectPending,   \* the auto-play effect is due to run after a render
  sop,             \* the last PracticeScreen handler that ran
  saveTimers,      \* pending deferred saves, oldest first
  aiTimers,        \* pending makeAIMove timers, oldest first
  aiReqs,          \* makeAIMove calls awaiting getComputerMove
  stored,          \* gameStorage: the stored games, newest first
  gameNo,          \* the number of the game on the board
  ended,           \* per game that reached a terminal state: its moves
  saves,           \* per game: the RecordedGames saved for it
  now,             \* the number of RecordedGames made so far
  lesson,          \* LessonScreen: the lesson, or null while it loads
  step,            \* LessonScreen: the index of the current step
  autoPlaying,     \* LessonScreen: the opponent's step is being played
  complete,        \* LessonScreen: the lesson is complete
  message,         \* LessonScreen: the message under the board
  autoPlayRef      \* LessonScreen: the pending auto-play timer, or null

hookVars == <<game, boardKey, selectedSquare, legalMoves, lastMove>>
logVars == <<op, opPrev, ret, pre>>
clsVars == <<clsIn, clsOut>>
anVars == <<build, an, anRet, anLog, moveQualities, lastMoveQuality, analyzingMove>>
aiVars == <<ai, aiRet, aiLog>>
replayVars == <<replayState, replayTimer, effectPending>>
practiceVars == <<result, sop, saveTimers, aiTimers, aiReqs, stored, gameNo, ended, saves, now>>
screenVars == <<replayVars, practiceVars>>
lessonVars == <<lesson, step, autoPlaying, complete, message, autoPlayRef>>

(* null and undefined, one for each kind of value they stand in for: TLC   *)
(* compares only values of the same kind.                                  *)
Null == "null"                 \* in place of a one-word string
Undefined == "undefined"       \* a missing field of a move
NullStr == << "null" >>        \* in place of a square or a notation
UndefinedStr == << "undefined" >>
NullRec == [ null |-> TRUE ]   \* in place of an object

(***************************************************************************)
(* Bounds of the model.                                                    *)
(***************************************************************************)
MaxPly == 8
MaxUpdates == 4

(***************************************************************************)
(* Squares and notation.                                                   *)
(***************************************************************************)
Sq(f, r) == <<f, r>>

a1 == Sq("a", "1")
b2 == Sq("b", "2")
b4 == Sq("b", "4")
c2 == Sq("c", "2")
c3 == Sq("c", "3")
d1 == Sq("d", "1")
d2 == Sq("d", "2")
d4 == Sq("d", "4")
d6 == Sq("d", "6")
d8 == Sq("d", "8")
e1 == Sq("e", "1")
e2 == Sq("e", "2")
e4 == Sq("e", "4")
e5 == Sq("e", "5")
e7 == Sq("e", "7")
e8 == Sq("e", "8")
f2 == Sq("f", "2")
f3 == Sq("f", "3")
f6 == Sq("f", "6")
f7 == Sq("f", "7")
f8 == Sq("f", "8")
g1 == Sq("g", "1")
g2 == Sq("g", "2")
g4 == Sq("g", "4")
g5 == Sq("g", "5")
g7 == Sq("g", "7")
g8 == Sq("g", "8")
h3 == Sq("h", "3")
h4 == Sq("h", "4")
h5 == Sq("h", "5")
h8 == Sq("h", "8")

Squares ==
  { a1, b2, b4, c2, c3, d1, d2, d4, d6, d8, e1, e2, e4, e5, e7, e8, f2, f3,
    f6, f7, f8, g1, g2, g4, g5, g7, g8, h3, h4, h5, h8 }

(* A legal move of the rule book: the fields of a chess.js Move that the   *)
(* source reads (from, to, san, captured, promotion), the moved piece, and *)
(* the placement the move leads to.                                        *)
Mv(from, to, san, piece, captured, promotion, next) ==
  [ from |-> from, to |-> to, san |-> san, piece |-> piece,
    captured |-> captured, promotion |-> promotion, next |-> next ]

(* One placement of the rule book: the side to move, its legal moves in    *)
(* the engine's order, the squares of its pieces that cannot move, and     *)
(* whether it is in check or the material is insufficient to mate.         *)
Node(turn, moves, idle, inCheck, insufficient) ==
  [ turn |-> turn, moves |-> moves, idle |-> idle, inCheck |-> inCheck,
    insufficient |-> insufficient ]

RuleBook ==
  [ start |-> Node("w",
      << Mv(d2, d4, <<"d","4">>, "p", Undefined, Undefined, "D1"),
         Mv(g1, f3, <<"N","f","3">>, "n", Undefined, Undefined, "N1"),
         Mv(f2, f3, <<"f","3">>, "p", Undefined, Undefined, "F1") >>,
      {e1}, FALSE, FALSE),
    \* knight dance: 1.Nf3 Nf6 2.Ng1 Ng8 returns to the initial placement
    N1 |-> Node("b",
      << Mv(g8, f6, <<"N","f","6">>, "n", Undefined, Undefined, "N2") >>,
      {e8}, FALSE, FALSE),
    N2 |-> Node("w",
      << Mv(f3, g1, <<"N","g","1">>, "n", Undefined, Undefined, "N3") >>,
      {e1}, FALSE, FALSE),
    N3 |-> Node("b",
      << Mv(f6, g8, <<"N","g","8">>, "n", Undefined, Undefined, "start") >>,
      {e8}, FALSE, FALSE),
    \* 1.f3 e5 2.g4 Qh4#: Black mates
    F1 |-> Node("b",
      << Mv(e7, e5, <<"e","5">>, "p", Undefined, Undefined, "F2"),
         Mv(g8, f6, <<"N","f","6">>, "n", Undefined, Undefined, "X1") >>,
      {e8}, FALSE, FALSE),
    F2 |-> Node("w",
      << Mv(g2, g4, <<"g","4">>, "p", Undefined, Undefined, "F3"),
         Mv(g1, h3, <<"N","h","3">>, "n", Undefined, Undefined, "Y1") >>,
      {e1}, FALSE, FALSE),
    \* 1...Nf6 2.Nh3 Ng8 3.Ng1 returns to the placement after 1.f3
    X1 |-> Node("w",
      << Mv(g1, h3, <<"N","h","3">>, "n", Undefined, Undefined, "X2") >>,
      {e1}, FALSE, FALSE),
    X2 |-> Node("b",
      << Mv(f6, g8, <<"N","g","8">>, "n", Undefined, Undefined, "X3") >>,
      {e8}, FALSE, FALSE),
    X3 |-> Node("w",
      << Mv(h3, g1, <<"N","g","1">>, "n", Undefined, Undefined, "F1") >>,
      {e1}, FALSE, FALSE),
    \* 2.Nh3 Nf6 3.Ng1 Ng8 returns to the placement after 1...e5
    Y1 |-> Node("b",
      << Mv(g8, f6, <<"N","f","6">>, "n", Undefined, Undefined, "Y2") >>,
      {e8}, FALSE, FALSE),
    Y2 |-> Node("w",
      << Mv(h3, g1, <<"N","g","1">>, "n", Undefined, Undefined, "Y3") >>,
      {e1}, FALSE, FALSE),
    Y3 |-> Node("b",
      << Mv(f6, g8, <<"N","g","8">>, "n", Undefined, Undefined, "F2") >>,
      {e8}, FALSE, FALSE),
    F3 |-> Node("b",
      << Mv(d8, h4, <<"Q","h","4","#">>, "q", Undefined, Undefined, "BMate"),
         Mv(g8, f6, <<"N","f","6">>, "n", Undefined, Undefined, "F4") >>,
      {e8}, FALSE, FALSE),
    \* 2...Nf6 3.Nh3 Ng8 4.Ng1 returns to the placement after 2.g4
    F4 |-> Node("w",
      << Mv(g1, h3, <<"N","h","3">>, "n", Undefined, Undefined, "F5"),
         Mv(c2, c3, <<"c","3">>, "p", Undefined, Undefined, "Z1") >>,
      {e1}, FALSE, FALSE),
    \* 3.c3 Ng8 4.b4 Qh4#: Black mates a move later
    Z1 |-> Node("b",
      << Mv(f6, g8, <<"N","g","8">>, "n", Undefined, Undefined, "Z2") >>,
      {e8}, FALSE, FALSE),
    Z2 |-> Node("w",
      << Mv(b2, b4, <<"b","4">>, "p", Undefined, Undefined, "Z3") >>,
      {e1}, FALSE, FALSE),
    Z3 |-> Node("b",
      << Mv(d8, h4, <<"Q","h","4","#">>, "q", Undefined, Undefined, "ZMate") >>,
      {e8}, FALSE, FALSE),
    ZMate |-> Node("w", << >>, {e1}, TRUE, FALSE),
    F5 |-> Node("b",
      << Mv(f6, g8, <<"N","g","8">>, "n", Undefined, Undefined, "F6") >>,
      {e8}, FALSE, FALSE),
    F6 |-> Node("w",
      << Mv(h3, g1, <<"N","g","1">>, "n", Undefined, Undefined, "F3") >>,
      {e1}, FALSE, FALSE),
    BMate |-> Node("w", << >>, {e1}, TRUE, FALSE),
    \* 1.d4 f6 2.e4 g5 3.Qh5#: White mates
    D1 |-> Node("b",
      << Mv(f7, f6, <<"f","6">>, "p", Undefined, Undefined, "G1"),
         Mv(e7, e5, <<"e","5">>, "p", Undefined, Undefined, "C1") >>,
      {e8}, FALSE, FALSE),
    G1 |-> Node("w",
      << Mv(e2, e4, <<"e","4">>, "p", Undefined, Undefined, "G2") >>,
      {e1}, FALSE, FALSE),
    G2 |-> Node("b",
      << Mv(g7, g5, <<"g","5">>, "p", Undefined, Undefined, "G3") >>,
      {e8}, FALSE, FALSE),
    G3 |-> Node("w",
      << Mv(d1, h5, <<"Q","h","5","#">>, "q", Undefined, Undefined, "WMate") >>,
      {e1}, FALSE, FALSE),
    WMate |-> Node("b", << >>, {e8}, TRUE, FALSE),
    \* 1.d4 e5 2.dxe5: a capture, then a check or the compressed endgame
    C1 |-> Node("w",
      << Mv(d4, e5, <<"d","x","e","5">>, "p", "p", Undefined, "C2") >>,
      {e1}, FALSE, FALSE),
    C2 |-> Node("b",
      << Mv(f8, b4, <<"B","b","4","+">>, "b", Undefined, Undefined, "C3"),
         Mv(e8, e7, <<"K","e","7">>, "k", Undefined, Undefined, "P1") >>,
      {}, FALSE, FALSE),
    C3 |-> Node("w",
      << Mv(c2, c3, <<"c","3">>, "p", Undefined, Undefined, "C4") >>,
      {e1}, TRUE, FALSE),
    C4 |-> Node("b",
      << Mv(b4, c3, <<"B","x","c","3","+">>, "b", "p", Undefined, "C5") >>,
      {e8}, FALSE, FALSE),
    C5 |-> Node("w",
      << Mv(b2, c3, <<"b","x","c","3">>, "p", "b", Undefined, "KK") >>,
      {e1}, TRUE, FALSE),
    \* bare kings: a draw by insufficient material with a legal move left
    KK |-> Node("b",
      << Mv(e8, e7, <<"K","e","7">>, "k", Undefined, Undefined, "KK2") >>,
      {}, FALSE, TRUE),
    KK2 |-> Node("w",
      << Mv(e1, e2, <<"K","e","2">>, "k", Undefined, Undefined, "KK3") >>,
      {}, FALSE, TRUE),
    KK3 |-> Node("b", << >>, {e7}, FALSE, TRUE),
    \* a pawn on g7 takes on h8: the four promotions share from and to
    P1 |-> Node("w",
      << Mv(g7, h8, <<"g","x","h","8","=","Q">>, "p", "r", "q", "Stale"),
         Mv(g7, h8, <<"g","x","h","8","=","R">>, "p", "r", "r", "PR"),
         Mv(g7, h8, <<"g","x","h","8","=","B">>, "p", "r", "b", "PR"),
         Mv(g7, h8, <<"g","x","h","8","=","N">>, "p", "r", "n", "PR") >>,
      {e1}, FALSE, FALSE),
    Stale |-> Node("b", << >>, {e7}, FALSE, FALSE),
    PR |-> Node("b",
      << Mv(e7, d6, <<"K","d","6">>, "k", Undefined, Undefined, "PR2") >>,
      {}, FALSE, FALSE),
    PR2 |-> Node("w", << >>, {e1}, FALSE, FALSE) ]

Boards == DOMAIN RuleBook

Range(s) == { s[i] : i \in 1 .. Len(s) }

(* Every algebraic notation of the rule book, and one that is no move.     *)
NoSan == <<"Z","z","9">>
BookSans == UNION { { m.san : m \in Range(RuleBook[b].moves) } : b \in Boards }
Sans == BookSans \cup { NoSan }

(* Every origin/destination pair of the rule book, each legal in some      *)
(* positions and illegal in the others, and two pairs that are never legal *)
CoordPairs ==
  UNION { { << m.from, m.to >> : m \in Range(RuleBook[b].moves) } : b \in Boards }
    \cup { << e1, e1 >>, << a1, h8 >> }

(***************************************************************************)
(* The rules engine (chess.js Chess).                                      *)
(***************************************************************************)
SwapColor(c) == IF c = "w" THEN "b" ELSE "w"

InitialPosition == [ board |-> "start", turn |-> "w", halfMoves |-> 0, moveNumber |-> 1 ]

\* new Chess()
NewChess == [ pos |-> InitialPosition, hist |-> << >> ]

\* game.fen(): the canonical text of the position; the history is not in it
Fen(g) == << g.pos.board, g.pos.turn, g.pos.halfMoves, g.pos.moveNumber >>

\* new Chess(fen)
Load(fen) ==
  [ pos |-> [ board |-> fen[1], turn |-> fen[2], halfMoves |-> fen[3], moveNumber |-> fen[4] ],
    hist |-> << >> ]

\* game.turn()
Turn(g) == g.pos.turn

\* game.moves({ verbose: true }): the legal moves, in the engine's order
Moves(g) ==
  IF RuleBook[g.pos.board].turn = g.pos.turn THEN RuleBook[g.pos.board].moves ELSE << >>

\* game.moves({ square, verbose: true })
MovesFrom(g, square) == SelectSeq(Moves(g), LAMBDA m : m.from = square)

\* game.get(square): the colour of the piece on the square, or Null
Get(g, square) ==
  LET n == RuleBook[g.pos.board] IN
  IF square \in n.idle \/ \E m \in Range(n.moves) : m.from = square
  THEN n.turn
  ELSE Null

\* the position after a legal move
Apply(g, m) ==
  [ pos |-> [ board |-> m.next,
              turn |-> SwapColor(g.pos.turn),
              halfMoves |-> IF m.piece = "p" \/ m.captured # Undefined
                            THEN 0 ELSE g.pos.halfMoves + 1,
              moveNumber |-> g.pos.moveNumber + (IF g.pos.turn = "b" THEN 1 ELSE 0) ],
    hist |-> Append(g.hist, [ move |-> m, prev |-> g.pos ]) ]

\* the legal moves that game.move({ from, to, promotion }) accepts: the
\* promotion is compared only for a move that promotes
MatchCoord(g, from, to, promotion) ==
  SelectSeq(Moves(g), LAMBDA m :
    m.from = from /\ m.to = to /\ (m.promotion = Undefined \/ m.promotion = promotion))

\* the legal moves that game.move(san) accepts
MatchSan(g, san) == SelectSeq(Moves(g), LAMBDA m : m.san = san)

\* game.undo(): pops the last move and restores the position before it
Undo(g) ==
  IF g.hist = << >> THEN g
  ELSE [ pos |-> g.hist[Len(g.hist)].prev, hist |-> SubSeq(g.hist, 1, Len(g.hist) - 1) ]

\* the plies of g that White played
WhitePlies(g) == { i \in 1 .. Len(g.hist) : g.hist[i].prev.turn = "w" }

\* game.history()
History(g) == [ i \in 1 .. Len(g.hist) |-> g.hist[i].move.san ]

\* game.history({ verbose: true })
HistoryVerbose(g) == [ i \in 1 .. Len(g.hist) |-> g.hist[i].move ]

\* the positions the game went through, the current one last
PositionsOf(g) == [ i \in 1 .. Len(g.hist) |-> g.hist[i].prev ] \o << g.pos >>

IsCheckmate(g) == RuleBook[g.pos.board].inCheck /\ Moves(g) = << >>
IsStalemate(g) == ~RuleBook[g.pos.board].inCheck /\ Moves(g) = << >>
IsThreefoldRepetition(g) ==
  LET ps == PositionsOf(g)
      same == { i \in 1 .. Len(ps) : ps[i].board = g.pos.board /\ ps[i].turn = g.pos.turn }
  IN  Cardinality(same) >= 3
IsDraw(g) ==
  \/ g.pos.halfMoves >= 100
  \/ IsStalemate(g)
  \/ RuleBook[g.pos.board].insufficient
  \/ IsThreefoldRepetition(g)
IsGameOver(g) == IsCheckmate(g) \/ IsStalemate(g) \/ IsDraw(g)

(***************************************************************************)
(* hooks/useChessGame.ts                                                   *)
(***************************************************************************)
Snapshot ==
  [ fen |-> Fen(game), history |-> History(game), lastMove |-> lastMove,
    selectedSquare |-> selectedSquare, legalMoves |-> legalMoves ]

Log(name, legal, ok, returned) ==
  /\ UNCHANGED <<clsVars, lessonVars, anVars, aiVars, screenVars>>
  /\ op' = [ name |-> name, legal |-> legal, ok |-> ok ]
  /\ opPrev' = op
  /\ ret' = returned
  /\ pre' = Snapshot

NoCall == [ name |-> "none", legal |-> FALSE, ok |-> FALSE ]

\* whether the engine has a legal move with this origin and destination
LegalPair(g, from, to) == \E m \in Range(Moves(g)) : m.from = from /\ m.to = to

\* whether the engine has a legal move with this notation
LegalSan(g, san) == \E m \in Range(Moves(g)) : m.san = san

\* a mutating call is counted by boardKey; the bounds stop the run
CanUpdate == boardKey < MaxUpdates
CanMove == CanUpdate /\ Len(game.hist) < MaxPly

makeMove_clearsOnFailure(from, to) ==
  LET ms == MatchCoord(game, from, to, "q") IN
  IF ms # << >>
  THEN /\ CanMove
       /\ game' = Apply(game, ms[1])
       /\ lastMove' = [ from |-> ms[1].from, to |-> ms[1].to ]
       /\ selectedSquare' = NullStr
       /\ legalMoves' = << >>
       /\ boardKey' = boardKey + 1
       /\ Log("makeMove", LegalPair(game, from, to), TRUE, ms[1])
  ELSE /\ selectedSquare' = NullStr
       /\ legalMoves' = << >>
       /\ UNCHANGED <<game, boardKey, lastMove>>
       /\ Log("makeMove", LegalPair(game, from, to), FALSE, NullRec)

makeMove_reloadsFromFen(from, to) ==
  LET ms == MatchCoord(game, from, to, "q") IN
  IF ms # << >>
  THEN /\ CanMove
       /\ game' = Load(Fen(Apply(game, ms[1])))
       /\ lastMove' = [ from |-> ms[1].from, to |-> ms[1].to ]
       /\ selectedSquare' = NullStr
       /\ legalMoves' = << >>
       /\ boardKey' = boardKey + 1
       /\ Log("makeMove", LegalPair(game, from, to), TRUE, ms[1])
  ELSE /\ UNCHANGED hookVars
       /\ Log("makeMove", LegalPair(game, from, to), FALSE, NullRec)

\* makeMove(from, to): game.move throws on an illegal move, which is caught
makeMove(from, to) ==
  LET ms == MatchCoord(game, from, to, "q") IN
  IF ms # << >>
  THEN /\ CanMove
       /\ game' = Apply(game, ms[1])
       /\ lastMove' = [ from |-> ms[1].from, to |-> ms[1].to ]
       /\ selectedSquare' = NullStr
       /\ legalMoves' = << >>
       /\ boardKey' = boardKey + 1
       /\ Log("makeMove", LegalPair(game, from, to), TRUE, ms[1])
  ELSE /\ UNCHANGED hookVars
       /\ Log("makeMove", LegalPair(game, from, to), FALSE, NullRec)

\* makeMoveSan(san): the selection is left as it is
makeMoveSan(san) ==
  LET ms == MatchSan(game, san) IN
  IF ms # << >>
  THEN /\ CanMove
       /\ game' = Apply(game, ms[1])
       /\ lastMove' = [ from |-> ms[1].from, to |-> ms[1].to ]
       /\ boardKey' = boardKey + 1
       /\ UNCHANGED <<selectedSquare, legalMoves>>
       /\ Log("makeMoveSan", LegalSan(game, san), TRUE, ms[1])
  ELSE /\ UNCHANGED hookVars
       /\ Log("makeMoveSan", LegalSan(game, san), FALSE, NullRec)

undoMove_keepsPosition ==
  /\ CanUpdate
  /\ boardKey' = boardKey + 1
  /\ UNCHANGED <<game, selectedSquare, legalMoves, lastMove>>
  /\ Log("undoMove", TRUE, game.hist # << >>, NullRec)

\* undoMove(): game.undo() and a re-render; the last-move marker stays
undoMove ==
  /\ CanUpdate
  /\ game' = Undo(game)
  /\ boardKey' = boardKey + 1
  /\ UNCHANGED <<selectedSquare, legalMoves, lastMove>>
  /\ Log("undoMove", TRUE, game.hist # << >>, NullRec)

resetGame_keepsLastMove ==
  /\ CanUpdate
  /\ game' = NewChess
  /\ selectedSquare' = NullStr
  /\ legalMoves' = << >>
  /\ boardKey' = boardKey + 1
  /\ UNCHANGED lastMove
  /\ Log("resetGame", TRUE, TRUE, NullRec)

\* resetGame()
resetGame ==
  /\ CanUpdate
  /\ game' = NewChess
  /\ selectedSquare' = NullStr
  /\ legalMoves' = << >>
  /\ lastMove' = NullRec
  /\ boardKey' = boardKey + 1
  /\ Log("resetGame", TRUE, TRUE, NullRec)

\* selectSquare(square)
selectSquare(square) ==
  /\ IF Get(game, square) # Null /\ Get(game, square) = Turn(game)
     THEN /\ selectedSquare' = square
          /\ legalMoves' = [ i \in 1 .. Len(MovesFrom(game, square)) |->
                               MovesFrom(game, square)[i].to ]
     ELSE UNCHANGED <<selectedSquare, legalMoves>>
  /\ UNCHANGED <<game, boardKey, lastMove>>
  /\ Log("selectSquare", TRUE, Get(game, square) = Turn(game), NullRec)

\* clearSelection()
clearSelection ==
  /\ selectedSquare' = NullStr
  /\ legalMoves' = << >>
  /\ UNCHANGED <<game, boardKey, lastMove>>
  /\ Log("clearSelection", TRUE, TRUE, NullRec)

\* historyToUci(): from + to + (promotion || '')
historyToUci(g) ==
  [ i \in 1 .. Len(g.hist) |->
      LET m == g.hist[i].move IN
      m.from \o m.to \o (IF m.promotion = Undefined THEN << >> ELSE << m.promotion >>) ]

\* the board of replay mode: the moves [0, index) applied to a fresh game,
\* stopping at the first one the engine rejects
RECURSIVE ReplayFrom(_, _, _, _)
ReplayFrom(g, moves, i, index) ==
  IF i > index \/ i > Len(moves) THEN g
  ELSE IF MatchSan(g, moves[i]) = << >> THEN g
       ELSE ReplayFrom(Apply(g, MatchSan(g, moves[i])[1]), moves, i + 1, index)

replayGame_inclusive(moves, index) == ReplayFrom(NewChess, moves, 1, index + 1)

replayGame(moves, index) == ReplayFrom(NewChess, moves, 1, index)


(***************************************************************************)
(* lib/services/moveAnalysis.ts: classifyMove                              *)
(***************************************************************************)
EVAL_THRESHOLDS == [ good |-> 25, inaccuracy |-> 50, mistake |-> 100, blunder |-> 200 ]

classifyMove_strict(evalDrop) ==
  IF evalDrop < EVAL_THRESHOLDS.good THEN "excellent"
  ELSE IF evalDrop < EVAL_THRESHOLDS.inaccuracy THEN "good"
  ELSE IF evalDrop < EVAL_THRESHOLDS.mistake THEN "inaccuracy"
  ELSE IF evalDrop < EVAL_THRESHOLDS.blunder THEN "mistake"
  ELSE "blunder"

classifyMove(evalDrop) ==
  IF evalDrop <= EVAL_THRESHOLDS.good THEN "excellent"
  ELSE IF evalDrop <= EVAL_THRESHOLDS.inaccuracy THEN "good"
  ELSE IF evalDrop <= EVAL_THRESHOLDS.mistake THEN "inaccuracy"
  ELSE IF evalDrop <= EVAL_THRESHOLDS.blunder THEN "mistake"
  ELSE "blunder"

(***************************************************************************)
(* The position evaluator (lib/api/lichess.ts, analyzePosition).           *)
(* A reply either fails (network error, HTTP error) or carries an          *)
(* evaluation in pawns, here counted in quarter pawns so that the          *)
(* multiplication by 100 is exact, and a best move in coordinate notation. *)
(***************************************************************************)
EvalFail == [ ok |-> FALSE ]
EvalReply(hasEval, eval, move) ==
  [ ok |-> TRUE, hasEval |-> hasEval, eval |-> eval, move |-> move ]

\* analyzePosition: evaluation: data.eval || 0, bestMove: data.move
analyzePosition(reply) ==
  [ evaluation |-> IF reply.hasEval THEN reply.eval ELSE 0, bestMove |-> reply.move ]

\* evaluation * 100, the evaluation being counted in quarter pawns
TimesHundred(evaluation) == (evaluation * 100) \div 4

Max(a, b) == IF a >= b THEN a ELSE b
Min(a, b) == IF a <= b THEN a ELSE b

\* String.prototype.slice(start, end) for 0 <= start <= end
Slice(s, start, end) == SubSeq(s, Min(start, Len(s)) + 1, Min(end, Len(s)))

\* Math.ceil(n / 2)
CeilHalf(n) == (n + 1) \div 2

\* a coordinate move as the evaluator writes it
Uci(m) == m.from \o m.to \o (IF m.promotion = Undefined THEN << >> ELSE << m.promotion >>)

(***************************************************************************)
(* lib/services/moveAnalysis.ts and its second copy (unnamed/part_003):    *)
(* analyzeMoveQuality, in the steps between its two awaits.                *)
(***************************************************************************)
Builds == { "moveAnalysis.ts", "part_003" }

\* the conversion of the best move to algebraic notation; the raw value is
\* kept when the slicing or the engine throws
BestMoveSan(fen, bestMoveUci) ==
  IF bestMoveUci = UndefinedStr THEN bestMoveUci
  ELSE LET from == Slice(bestMoveUci, 0, 2)
           to == Slice(bestMoveUci, 2, 4)
           promotion == IF Len(bestMoveUci) > 4 THEN bestMoveUci[5] ELSE Undefined
           ms == MatchCoord(Load(fen), from, to, promotion)
       IN  IF ms # << >> THEN ms[1].san ELSE bestMoveUci

\* the locals after the first await, or NullRec when the function has
\* already returned null
AfterFirstEval(b, fen, moveSan, moveNumber, reply) ==
  IF ~reply.ok THEN NullRec
  ELSE LET analysisBefore == analyzePosition(reply)
           bestMoveUci == analysisBefore.bestMove
           played == MatchSan(Load(fen), moveSan)
       IN  IF played = << >> THEN NullRec
           ELSE IF b = "part_003" /\ bestMoveUci = UndefinedStr THEN NullRec
           ELSE [ pc |-> "after", build |-> b, fen |-> fen, moveSan |-> moveSan,
                  moveNumber |-> moveNumber,
                  evalBefore |-> TimesHundred(analysisBefore.evaluation),
                  fenAfter |-> Fen(Apply(Load(fen), played[1])),
                  bestMove |-> BestMoveSan(fen, bestMoveUci),
                  bestMoveFrom |-> IF bestMoveUci = UndefinedStr THEN UndefinedStr
                                   ELSE Slice(bestMoveUci, 0, 2),
                  bestMoveTo |-> IF bestMoveUci = UndefinedStr THEN UndefinedStr
                                 ELSE Slice(bestMoveUci, 2, 4),
                  moveFrom |-> played[1].from,
                  moveTo |-> played[1].to ]

MoveQualityOf_unclamped(t, evalAfter) ==
  LET evalDrop == t.evalBefore - evalAfter
      core == [ moveNumber |-> t.moveNumber, move |-> t.moveSan,
                evalBefore |-> t.evalBefore, evalAfter |-> evalAfter,
                evalDrop |-> evalDrop,
                classification |-> classifyMove(Max(0, evalDrop)),
                bestMove |-> t.bestMove ]
  IN  IF t.build = "part_003"
      THEN core @@ [ moveFrom |-> t.moveFrom, moveTo |-> t.moveTo,
                     bestMoveFrom |-> t.bestMoveFrom, bestMoveTo |-> t.bestMoveTo ]
      ELSE core

\* the MoveQuality built after the second await
MoveQualityOf(t, evalAfter) ==
  LET evalDrop == t.evalBefore - evalAfter
      core == [ moveNumber |-> t.moveNumber, move |-> t.moveSan,
                evalBefore |-> t.evalBefore, evalAfter |-> evalAfter,
                evalDrop |-> Max(0, evalDrop),
                classification |-> classifyMove(Max(0, evalDrop)),
                bestMove |-> t.bestMove ]
  IN  IF t.build = "part_003"
      THEN core @@ [ moveFrom |-> t.moveFrom, moveTo |-> t.moveTo,
                     bestMoveFrom |-> t.bestMoveFrom, bestMoveTo |-> t.bestMoveTo ]
      ELSE core

\* what analyzeMoveQuality returns after the second await
AfterSecondEval(t, reply) ==
  IF ~reply.ok THEN NullRec
  ELSE MoveQualityOf(t, TimesHundred(analyzePosition(reply).evaluation))

(***************************************************************************)
(* components/screens/PracticeScreen.tsx: analyzePlayerMove                *)
(***************************************************************************)
\* up to the await: the flag is raised and the move number is taken from
\* the live game
analyzePlayerMove(fenBefore, moveSan) ==
  /\ an = NullRec
  /\ analyzingMove' = TRUE
  /\ an' = [ pc |-> "before", build |-> build, fen |-> fenBefore, moveSan |-> moveSan,
             moveNumber |-> CeilHalf(Len(History(game))) ]
  /\ anLog' = [ fen |-> fenBefore, moveSan |-> moveSan,
                moveLegal |-> LegalSan(Load(fenBefore), moveSan),
                replies |-> << >>,
                priorQualities |-> moveQualities,
                priorLast |-> lastMoveQuality ]
  /\ UNCHANGED <<build, anRet, moveQualities, lastMoveQuality>>

analyzePlayerMoveDone_clearsLast(quality) ==
  /\ IF quality # NullRec
     THEN /\ moveQualities' = Append(moveQualities, quality)
          /\ lastMoveQuality' = quality
     ELSE /\ lastMoveQuality' = NullRec
          /\ UNCHANGED moveQualities
  /\ analyzingMove' = FALSE
  /\ an' = NullRec
  /\ anRet' = quality

\* after the await: the result is appended and displayed, the flag lowered
analyzePlayerMoveDone(quality) ==
  /\ IF quality # NullRec
     THEN /\ moveQualities' = Append(moveQualities, quality)
          /\ lastMoveQuality' = quality
     ELSE UNCHANGED <<moveQualities, lastMoveQuality>>
  /\ analyzingMove' = FALSE
  /\ an' = NullRec
  /\ anRet' = quality

\* the evaluator answers the request for the position before the move
FirstEvalReturns(reply) ==
  /\ an # NullRec
  /\ an.pc = "before"
  /\ anLog' = [ anLog EXCEPT !.replies = Append(@, reply.ok) ]
                 @@ [ raw |-> IF reply.ok THEN analyzePosition(reply).bestMove
                                           ELSE UndefinedStr ]
  /\ LET t == AfterFirstEval(an.build, an.fen, an.moveSan, an.moveNumber, reply) IN
     IF t = NullRec
     THEN analyzePlayerMoveDone(NullRec)
     ELSE /\ an' = t
          /\ UNCHANGED <<anRet, moveQualities, lastMoveQuality, analyzingMove>>
  /\ UNCHANGED build

\* the evaluator answers the request for the position after the move
SecondEvalReturns(reply) ==
  /\ an # NullRec
  /\ an.pc = "after"
  /\ anLog' = [ anLog EXCEPT !.replies = Append(@, reply.ok) ]
  /\ analyzePlayerMoveDone(AfterSecondEval(an, reply))
  /\ UNCHANGED build
(***************************************************************************)
(* The move database (lib/api/lichess.ts, fetchLichessExplorer).  A reply  *)
(* either fails or is the parsed JSON: its moves field may be missing.     *)
(***************************************************************************)
DbFail == [ ok |-> FALSE ]
DbReply(hasMoves, moves) == [ ok |-> TRUE, hasMoves |-> hasMoves, moves |-> moves ]
DbEntry(san, white, draws, black) ==
  [ san |-> san, white |-> white, draws |-> draws, black |-> black ]

(***************************************************************************)
(* lib/types.ts: getComputerMove                                           *)
(***************************************************************************)
Difficulties == { "beginner", "intermediate", "advanced" }

RandomIndexes_round(n) == 0 .. n

\* Math.floor(Math.random() * n)
RandomIndexes(n) == 0 .. (n - 1)

\* moves[index].san; past the end the element is undefined
BeginnerMove(moves, index) ==
  IF index + 1 \in DOMAIN moves THEN moves[index + 1].san ELSE UndefinedStr

\* m.white + m.draws + m.black
GamesOf(m) == m.white + m.draws + m.black

\* top.reduce((s, m) => s + m.white + m.draws + m.black, 0)
RECURSIVE TotalGames(_)
TotalGames(top) == IF top = << >> THEN 0 ELSE GamesOf(Head(top)) + TotalGames(Tail(top))

\* Math.random() * totalGames, a real in [0, totalGames), counted in halves
RandomTimes(totalGames) == IF totalGames = 0 THEN { 0 } ELSE 0 .. (2 * totalGames - 1)

\* the running weighted draw over top, rand counted in halves
RECURSIVE WeightedDraw_strict(_, _, _, _)
WeightedDraw_strict(top, i, rand, chosen) ==
  IF i > Len(top) THEN chosen
  ELSE LET left == rand - 2 * GamesOf(top[i]) IN
       IF left < 0 THEN top[i] ELSE WeightedDraw_strict(top, i + 1, left, chosen)

RECURSIVE WeightedDraw(_, _, _, _)
WeightedDraw(top, i, rand, chosen) ==
  IF i > Len(top) THEN chosen
  ELSE LET left == rand - 2 * GamesOf(top[i]) IN
       IF left <= 0 THEN top[i] ELSE WeightedDraw(top, i + 1, left, chosen)

\* data.moves.slice(0, 3) and the draw: chosen.san
BookMove(moves, rand) ==
  LET top == Slice(moves, 0, 3) IN WeightedDraw(top, 1, rand, top[1]).san

\* s.includes(ch)
Includes(s, ch) == \E i \in 1 .. Len(s) : s[i] = ch

CentreSquares == { Sq("d", "4"), Sq("d", "5"), Sq("e", "4"), Sq("e", "5") }
NearCentreSquares ==
  { Sq("c", "3"), Sq("c", "4"), Sq("c", "5"), Sq("c", "6"),
    Sq("f", "3"), Sq("f", "4"), Sq("f", "5"), Sq("f", "6") }

\* Math.random() * 10, a real in [0, 10), at three of its values
JitterValues == { 0, 4, 9 }

HeuristicScore(m, jitter) ==
  jitter
  + (IF m.captured # Undefined THEN 30 ELSE 0)
  + (IF Includes(m.san, "+") THEN 20 ELSE 0)
  + (IF m.to \in CentreSquares THEN 15 ELSE 0)
  + (IF m.to \in NearCentreSquares THEN 5 ELSE 0)

\* scored.sort((a, b) => b.score - a.score)[0]: the sort is stable, so the
\* first of the moves with the highest score
HeuristicMove(moves, jitter) ==
  LET score(i) == HeuristicScore(moves[i], jitter[i])
      best == CHOOSE i \in 1 .. Len(moves) :
                /\ \A j \in 1 .. Len(moves) : score(j) <= score(i)
                /\ \A j \in 1 .. (i - 1) : score(j) < score(i)
  IN  moves[best].san

AiReturn(value, path) ==
  /\ ai' = NullRec
  /\ aiRet' = value
  /\ aiLog' = [ aiLog EXCEPT !.path = path ]

\* the same, with the random numbers drawn on the way kept in the log
AiReturnDrawn(value, path, drawn) ==
  /\ ai' = NullRec
  /\ aiRet' = value
  /\ aiLog' = [ aiLog EXCEPT !.path = path, !.drawn = drawn ]

\* getComputerMove(game, difficulty) up to its first await
AiEnter(difficulty, log) ==
  IF IsGameOver(game) \/ Moves(game) = << >>
  THEN /\ ai' = NullRec
       /\ aiRet' = NullStr
       /\ aiLog' = [ log EXCEPT !.path = "over" ]
  ELSE IF difficulty = "beginner"
  THEN \E index \in RandomIndexes(Len(Moves(game))) :
         /\ ai' = NullRec
         /\ aiRet' = BeginnerMove(Moves(game), index)
         /\ aiLog' = [ log EXCEPT !.path = "random" ]
  ELSE /\ ai' = [ pc |-> IF difficulty = "intermediate" THEN "awaitDb" ELSE "awaitEval",
                  moves |-> Moves(game) ]
       /\ aiLog' = log
       /\ UNCHANGED aiRet

getComputerMove(difficulty) ==
  /\ ai = NullRec
  /\ AiEnter(difficulty,
             [ difficulty |-> difficulty, gameOver |-> IsGameOver(game),
               before |-> game, evalBad |-> FALSE, fellBack |-> FALSE,
               path |-> "pending", drawn |-> NullRec ])
  /\ UNCHANGED game

\* the probe of the advanced path: game.move(...) to read move.san, then
\* game.undo()
ProbeMove_notUndone(g, m) == Apply(g, m)

ProbeMove(g, m) == Undo(Apply(g, m))

\* advanced: the evaluator has answered.  A best move the engine accepts is
\* played on the live game as a probe and undone; anything else falls back
\* to getComputerMove(game, 'intermediate')
EvaluatorReturns(reply) ==
  /\ ai # NullRec
  /\ ai.pc = "awaitEval"
  /\ LET bestMove == IF reply.ok THEN analyzePosition(reply).bestMove ELSE UndefinedStr
         truthy == reply.ok /\ bestMove # UndefinedStr /\ bestMove # << >>
         from == Slice(bestMove, 0, 2)
         to == Slice(bestMove, 2, 4)
         promotion == IF Len(bestMove) > 4 THEN bestMove[5] ELSE Undefined
         ms == IF truthy THEN MatchCoord(game, from, to, promotion) ELSE << >>
     IN  IF ms # << >>
         THEN /\ game' = ProbeMove(game, ms[1])
              /\ AiReturn(ms[1].san, "engine")
         ELSE /\ AiEnter("intermediate",
                         [ aiLog EXCEPT !.evalBad = TRUE, !.fellBack = TRUE ])
              /\ UNCHANGED game

\* intermediate: the database has answered.  A non-empty list gives the
\* weighted draw among its first three; anything else gives the heuristic
DatabaseReturns(reply) ==
  /\ ai # NullRec
  /\ ai.pc = "awaitDb"
  /\ IF reply.ok /\ reply.hasMoves /\ Len(reply.moves) > 0
     THEN \E rand \in RandomTimes(TotalGames(Slice(reply.moves, 0, 3))) :
            AiReturnDrawn(BookMove(reply.moves, rand), "book",
                          [ moves |-> reply.moves, rand |-> rand ])
     ELSE \E jitter \in [ 1 .. Len(ai.moves) -> JitterValues ] :
            AiReturnDrawn(HeuristicMove(ai.moves, jitter), "heuristic",
                          [ moves |-> ai.moves, jitter |-> jitter ])
  /\ UNCHANGED game

(***************************************************************************)
(* components/screens/PracticeScreen.tsx: results and recorded games       *)
(***************************************************************************)
PracticeResult(type, winner) == [ type |-> type, winner |-> winner ]
Playing == PracticeResult("playing", Null)

\* checkGameOver: the result it records, or Playing when it records none
GameOverResult(g) ==
  IF IsCheckmate(g) THEN PracticeResult("checkmate", SwapColor(Turn(g)))
  ELSE IF IsStalemate(g) THEN PracticeResult("stalemate", Null)
  ELSE IF IsDraw(g) THEN PracticeResult("draw", Null)
  ELSE Playing

\* the fields of a RecordedGame that are read back: result, moveHistory and
\* moveQualities; of is the number of the game the record was made for
RecordedGame(gameResult, moveHistory, qualities, of) ==
  [ result |-> gameResult, moveHistory |-> moveHistory,
    moveQualities |-> qualities, of |-> of ]

(***************************************************************************)
(* components/screens/PracticeScreen.tsx: the replay state machine.        *)
(* Speeds are counted in halves (0.5x, 1x, 2x are 1, 2, 4) and time in     *)
(* milliseconds.  A state update re-renders the screen, after which the    *)
(* auto-play effect runs before any other event is handled.                *)
(***************************************************************************)
REPLAY_SPEEDS == { 1, 2, 4 }
REPLAY_INTERVAL_MS == 1000

\* the speed 1 of the initial ReplayState, in halves
DefaultSpeed == 2

IdleReplayState ==
  [ isReplaying |-> FALSE, currentMoveIndex |-> 0, isPlaying |-> FALSE,
    speed |-> DefaultSpeed, game |-> NullRec ]

\* REPLAY_INTERVAL_MS / replayState.speed
ReplayInterval(speed) == (2 * REPLAY_INTERVAL_MS) \div speed

\* the step of time: the shortest replay interval
TimeStep == ReplayInterval(4)

\* the replay controls bar is rendered
ReplayBarShown == replayState.isReplaying /\ replayState.game # NullRec

\* no render or effect is outstanding: the next event can be handled
Settled == ~effectPending

NextReplayState_unclamped(prev) ==
  IF prev.game = NullRec THEN prev
  ELSE [ prev EXCEPT !.currentMoveIndex = @ + 1 ]

\* the updater of nextReplayMove
NextReplayState(prev) ==
  IF prev.game = NullRec \/ prev.currentMoveIndex >= Len(prev.game.moveHistory)
  THEN prev
  ELSE [ prev EXCEPT !.currentMoveIndex = @ + 1 ]

\* the updater of prevReplayMove
PrevReplayState(prev) ==
  IF prev.currentMoveIndex = 0 THEN prev
  ELSE [ prev EXCEPT !.currentMoveIndex = @ - 1 ]

\* setReplayState with an updater: returning prev itself re-renders nothing
SetReplayState(next, sameObject) ==
  /\ replayState' = next
  /\ effectPending' = ~sameObject

toggleReplayPlayback ==
  /\ Settled /\ ReplayBarShown
  /\ SetReplayState([ replayState EXCEPT !.isPlaying = ~@ ], FALSE)
  /\ sop' = "toggleReplayPlayback"
  /\ UNCHANGED replayTimer

nextReplayMove_onLiveGame ==
  /\ Settled /\ ReplayBarShown
  /\ SetReplayState(NextReplayState(replayState), NextReplayState(replayState) = replayState)
  /\ sop' = "nextReplayMove"
  /\ game' = replayGame(replayState.game.moveHistory, replayState'.currentMoveIndex)
  /\ UNCHANGED replayTimer

\* the Next button
nextReplayMove ==
  /\ Settled /\ ReplayBarShown
  /\ SetReplayState(NextReplayState(replayState), NextReplayState(replayState) = replayState)
  /\ sop' = "nextReplayMove"
  /\ UNCHANGED <<game, replayTimer>>

\* the Prev button
prevReplayMove ==
  /\ Settled /\ ReplayBarShown
  /\ SetReplayState(PrevReplayState(replayState), PrevReplayState(replayState) = replayState)
  /\ sop' = "prevReplayMove"
  /\ UNCHANGED replayTimer

\* the speed buttons
setReplaySpeedFn(speed) ==
  /\ Settled /\ ReplayBarShown
  /\ SetReplayState([ replayState EXCEPT !.speed = speed ], FALSE)
  /\ sop' = "setReplaySpeedFn"
  /\ UNCHANGED replayTimer

\* the auto-play timer fires: nextReplayMove()
autoAdvance ==
  /\ Settled
  /\ replayTimer # NullRec
  /\ replayTimer.left = 0
  /\ replayTimer' = NullRec
  /\ SetReplayState(NextReplayState(replayState), NextReplayState(replayState) = replayState)
  /\ sop' = "autoAdvance"

\* time passes while the auto-play timer is not yet due
TimePasses ==
  /\ Settled
  /\ replayTimer # NullRec
  /\ replayTimer.left > 0
  /\ replayTimer' = [ left |-> Max(0, replayTimer.left - TimeStep) ]
  /\ UNCHANGED <<replayState, effectPending, sop>>

autoPlayEffect_spins ==
  /\ effectPending
  /\ IF ~replayState.isReplaying \/ ~replayState.isPlaying \/ replayState.game = NullRec
     THEN /\ replayTimer' = NullRec
          /\ effectPending' = FALSE
          /\ UNCHANGED replayState
     ELSE /\ replayTimer' = [ left |-> ReplayInterval(replayState.speed) ]
          /\ effectPending' = FALSE
          /\ UNCHANGED replayState
  /\ UNCHANGED sop

\* the auto-play effect, run after a render in which replayState changed:
\* the cleanup of its last run cancels the timer, then it stops at the end
\* of the game or arms a new timer
autoPlayEffect ==
  /\ effectPending
  /\ IF ~replayState.isReplaying \/ ~replayState.isPlaying \/ replayState.game = NullRec
     THEN /\ replayTimer' = NullRec
          /\ effectPending' = FALSE
          /\ UNCHANGED replayState
     ELSE IF replayState.currentMoveIndex >= Len(replayState.game.moveHistory)
     THEN /\ replayTimer' = NullRec
          /\ SetReplayState([ replayState EXCEPT !.isPlaying = FALSE ], FALSE)
     ELSE /\ replayTimer' = [ left |-> ReplayInterval(replayState.speed) ]
          /\ effectPending' = FALSE
          /\ UNCHANGED replayState
  /\ UNCHANGED sop

\* the bound on the number of games started
MaxGames == 3
CanReset == gameNo < MaxGames

startReplay_resetsFirst ==
  /\ Settled
  /\ result.type # "playing" /\ ~replayState.isReplaying
  /\ CanReset
  /\ game' = NewChess
  /\ gameNo' = gameNo + 1
  /\ selectedSquare' = NullStr
  /\ legalMoves' = << >>
  /\ lastMove' = NullRec
  /\ boardKey' = boardKey + 1
  /\ replayState' = [ isReplaying |-> TRUE, currentMoveIndex |-> 0, isPlaying |-> FALSE,
                      speed |-> DefaultSpeed,
                      game |-> RecordedGame(result, History(game'), moveQualities, gameNo) ]
  /\ effectPending' = TRUE
  /\ sop' = "startReplay"
  /\ UNCHANGED <<replayTimer, result>>

\* Replay This Game: shown once the game has a result and no replay is on
startReplay ==
  /\ Settled
  /\ result.type # "playing" /\ ~replayState.isReplaying
  /\ CanReset
  /\ game' = NewChess
  /\ gameNo' = gameNo + 1
  /\ selectedSquare' = NullStr
  /\ legalMoves' = << >>
  /\ lastMove' = NullRec
  /\ boardKey' = boardKey + 1
  /\ replayState' = [ isReplaying |-> TRUE, currentMoveIndex |-> 0, isPlaying |-> FALSE,
                      speed |-> DefaultSpeed,
                      game |-> RecordedGame(result, History(game), moveQualities, gameNo) ]
  /\ effectPending' = TRUE
  /\ sop' = "startReplay"
  /\ UNCHANGED <<replayTimer, result>>

exitReplay_keepsPlaying ==
  /\ Settled /\ ReplayBarShown
  /\ replayState' = [ IdleReplayState EXCEPT !.isPlaying = replayState.isPlaying ]
  /\ effectPending' = TRUE
  /\ game' = NewChess
  /\ result' = Playing
  /\ selectedSquare' = NullStr
  /\ legalMoves' = << >>
  /\ lastMove' = NullRec
  /\ moveQualities' = << >>
  /\ lastMoveQuality' = NullRec
  /\ analyzingMove' = FALSE
  /\ boardKey' = boardKey + 1
  /\ sop' = "exitReplay"
  /\ CanReset
  /\ gameNo' = gameNo + 1
  /\ UNCHANGED replayTimer

exitReplay_keepsQualities ==
  /\ Settled /\ ReplayBarShown
  /\ replayState' = IdleReplayState
  /\ effectPending' = TRUE
  /\ game' = NewChess
  /\ result' = Playing
  /\ selectedSquare' = NullStr
  /\ legalMoves' = << >>
  /\ lastMove' = NullRec
  /\ lastMoveQuality' = NullRec
  /\ analyzingMove' = FALSE
  /\ boardKey' = boardKey + 1
  /\ sop' = "exitReplay"
  /\ CanReset
  /\ gameNo' = gameNo + 1
  /\ UNCHANGED <<replayTimer, moveQualities>>

\* Exit Replay: the live game was reset by startReplay and is reset again
exitReplay ==
  /\ Settled /\ ReplayBarShown
  /\ replayState' = IdleReplayState
  /\ effectPending' = TRUE
  /\ game' = NewChess
  /\ result' = Playing
  /\ selectedSquare' = NullStr
  /\ legalMoves' = << >>
  /\ lastMove' = NullRec
  /\ moveQualities' = << >>
  /\ lastMoveQuality' = NullRec
  /\ analyzingMove' = FALSE
  /\ boardKey' = boardKey + 1
  /\ sop' = "exitReplay"
  /\ CanReset
  /\ gameNo' = gameNo + 1
  /\ UNCHANGED replayTimer

(***************************************************************************)
(* components/screens/PracticeScreen.tsx: play against the opponent.       *)
(* The review navigation and the progress counters are left out.           *)
(***************************************************************************)
\* analysis starts once more than this number of White moves were played
AnalysisGate == 10

\* the bound on the length of a game in practice
MaxPracticePly == 24
CanPlay == Len(game.hist) < MaxPracticePly

\* what a handler created in this render closes over
Closure == [ moveQualities |-> moveQualities, of |-> gameNo ]

\* checkGameOver() after a move gave the position g: the result is recorded
\* and the save deferred when the game is over
checkGameOver(g, closure) ==
  IF GameOverResult(g) # Playing
  THEN /\ result' = GameOverResult(g)
       /\ saveTimers' = Append(saveTimers,
            [ gameResult |-> GameOverResult(g), moveQualities |-> closure.moveQualities,
              of |-> gameNo ])
       /\ ended' = [ ended EXCEPT ![gameNo] = Append(@, g) ]
  ELSE UNCHANGED <<result, saveTimers, ended>>

\* the number given to the analysed move: taken from the live game when
\* analyzePlayerMove is called, before its await
MoveNum_atHalf(g) == Len(History(g)) \div 2

MoveNum(g) == CeilHalf(Len(History(g)))

\* the count handleSquareClick compares with the gate after a move gave g
whiteMovesPlayed_plusOne(g) == CeilHalf(Len(History(g))) + 1

whiteMovesPlayed(g) == CeilHalf(Len(History(g)))

\* the branch of handleSquareClick that tries the move selectedSquare-square
TryMove(square) ==
  LET ms == MatchCoord(game, selectedSquare, square, "q") IN
  IF ms # << >>
  THEN LET g == Apply(game, ms[1]) IN
       /\ CanPlay
       /\ game' = g
       /\ lastMove' = [ from |-> ms[1].from, to |-> ms[1].to ]
       /\ selectedSquare' = NullStr
       /\ legalMoves' = << >>
       /\ boardKey' = boardKey + 1
       /\ checkGameOver(g, Closure)
       /\ IF ~IsGameOver(g)
          THEN /\ aiTimers' = Append(aiTimers, Closure)
               /\ IF whiteMovesPlayed(g) > AnalysisGate
                  THEN /\ analyzingMove' = TRUE
                       /\ an' = [ pc |-> "before", build |-> build, fen |-> Fen(game),
                                  moveSan |-> ms[1].san,
                                  moveNumber |-> MoveNum(g) ]
                       /\ anLog' = [ fen |-> Fen(game), moveSan |-> ms[1].san,
                                     moveLegal |-> TRUE, replies |-> << >>,
                                     priorQualities |-> moveQualities,
                                     priorLast |-> NullRec, game |-> g ]
                  ELSE UNCHANGED <<analyzingMove, an, anLog>>
          ELSE UNCHANGED <<aiTimers, analyzingMove, an, anLog>>
       /\ lastMoveQuality' = NullRec
  ELSE /\ lastMoveQuality' = NullRec
       /\ selectedSquare' = NullStr
       /\ legalMoves' = << >>
       /\ UNCHANGED <<game, lastMove, boardKey, result, saveTimers, ended, aiTimers,
                      analyzingMove, an, anLog>>

\* handleSquareClick(square)
handleSquareClick(square) ==
  /\ Settled
  /\ sop' = "handleSquareClick"
  /\ IF \/ replayState.isReplaying
        \/ Turn(game) # "w"
        \/ result.type # "playing"
     THEN UNCHANGED <<hookVars, result, saveTimers, ended, aiTimers,
                      analyzingMove, an, anLog, lastMoveQuality>>
     ELSE IF selectedSquare # NullStr /\ Get(game, square) # Turn(game)
     THEN TryMove(square)
     ELSE IF Get(game, square) = Turn(game)
     THEN /\ selectedSquare' = square
          /\ legalMoves' = [ i \in 1 .. Len(MovesFrom(game, square)) |->
                               MovesFrom(game, square)[i].to ]
          /\ UNCHANGED <<game, lastMove, boardKey, result, saveTimers, ended, aiTimers,
                         analyzingMove, an, anLog, lastMoveQuality>>
     ELSE UNCHANGED <<hookVars, result, saveTimers, ended, aiTimers,
                      analyzingMove, an, anLog, lastMoveQuality>>
  /\ UNCHANGED <<build, anRet, moveQualities>>

\* the bound on the opponent timers and requests outstanding at once
MaxPending == 2

\* a sequence without its i-th element
Without(seq, i) == SubSeq(seq, 1, i - 1) \o SubSeq(seq, i + 1, Len(seq))

\* the makeAIMove timer fires: nothing when the game is over, else the
\* selector is called and awaited
makeAIMove ==
  /\ Settled
  /\ aiTimers # << >>
  /\ aiTimers' = Tail(aiTimers)
  /\ IF IsGameOver(game)
     THEN UNCHANGED aiReqs
     ELSE aiReqs' = Append(aiReqs,
            [ sans |-> { m.san : m \in Range(Moves(game)) }, fen |-> Fen(game),
              closure |-> Head(aiTimers) ])
  /\ sop' = "makeAIMove"
  /\ UNCHANGED <<hookVars, result, saveTimers, ended>>

\* getComputerMove returns to makeAIMove: a move that was legal where the
\* selector was called, or a notation of the opening database that is no
\* move there (the selector returns null only when the game was over at
\* the call, which makeAIMove has excluded); game.move applies it to the
\* live game as it is by then and throws when it is no move of it
makeAIMoveReturns(i, san) ==
  /\ Settled
  /\ i \in DOMAIN aiReqs
  /\ san \in aiReqs[i].sans \cup { NoSan }
  /\ aiReqs' = Without(aiReqs, i)
  /\ sop' = "makeAIMoveReturns"
  /\ LET ms == MatchSan(game, san) IN
     IF ms # << >>
     THEN LET g == Apply(game, ms[1]) IN
          /\ CanPlay
          /\ game' = g
          /\ lastMove' = [ from |-> ms[1].from, to |-> ms[1].to ]
          /\ boardKey' = boardKey + 1
          /\ checkGameOver(g, aiReqs[i].closure)
          /\ UNCHANGED <<selectedSquare, legalMoves>>
     ELSE UNCHANGED <<hookVars, result, saveTimers, ended>>
  /\ UNCHANGED aiTimers

\* the bound on the number of the game that New Game may start
LastNewGame == 2

\* New Game and Play Again: disabled only during a replay
newGame ==
  /\ Settled
  /\ ~replayState.isReplaying
  /\ gameNo < LastNewGame
  /\ game' = NewChess
  /\ gameNo' = gameNo + 1
  /\ result' = Playing
  /\ selectedSquare' = NullStr
  /\ legalMoves' = << >>
  /\ lastMove' = NullRec
  /\ moveQualities' = << >>
  /\ lastMoveQuality' = NullRec
  /\ analyzingMove' = FALSE
  /\ boardKey' = boardKey + 1
  /\ sop' = "newGame"

(***************************************************************************)
(* components/screens/PracticeScreen.tsx: the arrows of the replay.        *)
(***************************************************************************)
\* qualities.find(q => q.moveNumber === moveNum), null for undefined
FindQuality(qualities, moveNum) ==
  LET hits == { i \in DOMAIN qualities : qualities[i].moveNumber = moveNum } IN
  IF hits = {} THEN NullRec
  ELSE qualities[CHOOSE i \in hits : \A j \in hits : i <= j]

\* an optional string field of a MoveQuality is there and not empty
Truthy(quality, field) ==
  /\ field \in DOMAIN quality
  /\ quality[field] # UndefinedStr
  /\ quality[field] # << >>

Red == "rgba(220, 50, 50, 0.7)"
Green == "rgba(50, 200, 80, 0.7)"

\* the red arrow of the move played and the green arrow of the better move
ArrowsOf(quality) ==
  (IF Truthy(quality, "moveFrom") /\ Truthy(quality, "moveTo")
   THEN << [ from |-> quality.moveFrom, to |-> quality.moveTo, color |-> Red ] >>
   ELSE << >>)
  \o
  (IF Truthy(quality, "bestMoveFrom") /\ Truthy(quality, "bestMoveTo")
      /\ Truthy(quality, "bestMove")
   THEN << [ from |-> quality.bestMoveFrom, to |-> quality.bestMoveTo, color |-> Green ] >>
   ELSE << >>)

\* Math.ceil((moveIndex + 1) / 2)
replayMoveNum_floor(moveIndex) == (moveIndex + 1) \div 2

replayMoveNum(moveIndex) == CeilHalf(moveIndex + 1)

\* the quality that replayArrows looks up for the index of the replay
replayQuality(rs) ==
  IF ~rs.isReplaying \/ rs.game = NullRec \/ rs.currentMoveIndex = 0 THEN NullRec
  ELSE LET moveIndex == rs.currentMoveIndex - 1 IN
       IF moveIndex % 2 # 0 THEN NullRec
       ELSE FindQuality(rs.game.moveQualities, replayMoveNum(moveIndex))

\* replayArrows, the memo over replayState
replayArrows(rs) ==
  LET quality == replayQuality(rs) IN
  IF quality = NullRec THEN << >>
  ELSE IF quality.classification \in { "excellent", "good" } THEN << >>
  ELSE ArrowsOf(quality)

(***************************************************************************)
(* components/screens/MiddlegameMenuScreen.tsx: LessonScreen, the guided   *)
(* lesson.  Steps are counted from 0 as in the source; the arrow hint and  *)
(* the flip of the board are left out.                                     *)
(***************************************************************************)
NotQuite == "Not quite! The correct move is ... Try again."

\* lesson.steps[i]
StepAt(i) == lesson.steps[i + 1]

\* markComplete(atStep)
markComplete(atStep) ==
  /\ complete' = TRUE
  /\ step' = atStep

\* advanceStep(): the next step becomes current, the lesson is complete
\* past its last step, and a step of Black is played by a timer
advanceStep ==
  LET nextStep == step + 1 IN
  IF nextStep >= Len(lesson.steps)
  THEN /\ markComplete(nextStep)
       /\ UNCHANGED <<autoPlaying, autoPlayRef>>
  ELSE /\ step' = nextStep
       /\ UNCHANGED complete
       /\ IF StepAt(nextStep).side = "b"
          THEN /\ autoPlaying' = TRUE
               /\ autoPlayRef' = [ nextStep |-> nextStep, move |-> StepAt(nextStep).move ]
          ELSE UNCHANGED <<autoPlaying, autoPlayRef>>

\* the wrong move of a lesson: game.move(...) succeeded, then game.undo()
WrongMove_kept(g, m) == Apply(g, m)

WrongMove(g, m) == Undo(Apply(g, m))

\* LessonScreen.handleSquareClick(square)
LessonScreen_handleSquareClick(square) ==
  IF autoPlaying \/ complete \/ lesson = NullRec
  THEN UNCHANGED <<hookVars, lessonVars>>
  ELSE IF step >= Len(lesson.steps) \/ StepAt(step).side # "w"
  THEN UNCHANGED <<hookVars, lessonVars>>
  ELSE IF selectedSquare # NullStr
  THEN LET ms == MatchCoord(game, selectedSquare, square, "q") IN
       IF ms = << >>
       THEN /\ selectedSquare' = NullStr
            /\ legalMoves' = << >>
            /\ UNCHANGED <<game, boardKey, lastMove, lessonVars>>
       ELSE IF ms[1].san = StepAt(step).move
       THEN /\ game' = Apply(game, ms[1])
            /\ lastMove' = [ from |-> ms[1].from, to |-> ms[1].to ]
            /\ selectedSquare' = NullStr
            /\ legalMoves' = << >>
            /\ message' = ""
            /\ boardKey' = boardKey + 1
            /\ advanceStep
            /\ UNCHANGED lesson
       ELSE /\ game' = WrongMove(game, ms[1])
            /\ boardKey' = boardKey + 1
            /\ message' = NotQuite
            /\ selectedSquare' = NullStr
            /\ legalMoves' = << >>
            /\ UNCHANGED <<lastMove, lesson, step, autoPlaying, complete, autoPlayRef>>
  ELSE IF Get(game, square) = "w"
  THEN /\ selectedSquare' = square
       /\ legalMoves' = [ i \in 1 .. Len(MovesFrom(game, square)) |->
                            MovesFrom(game, square)[i].to ]
       /\ UNCHANGED <<game, boardKey, lastMove, lessonVars>>
  ELSE UNCHANGED <<hookVars, lessonVars>>

\* the auto-play timer of advanceStep fires: the step of Black is played on
\* the live game and the step after it becomes current
autoPlay ==
  /\ autoPlayRef # NullRec
  /\ LET ms == MatchSan(game, autoPlayRef.move)
         afterNext == autoPlayRef.nextStep + 1
     IN  /\ IF ms # << >>
            THEN /\ game' = Apply(game, ms[1])
                 /\ lastMove' = [ from |-> ms[1].from, to |-> ms[1].to ]
                 /\ boardKey' = boardKey + 1
            ELSE UNCHANGED <<game, lastMove, boardKey>>
         /\ autoPlaying' = FALSE
         /\ IF afterNext >= Len(lesson.steps)
            THEN markComplete(afterNext)
            ELSE /\ step' = afterNext
                 /\ UNCHANGED complete
  /\ autoPlayRef' = NullRec
  /\ UNCHANGED <<selectedSquare, legalMoves, lesson, message>>

\* loadLesson(): the lesson arrives, enriched or not, with the same steps
loadLesson(loaded) ==
  /\ lesson = NullRec
  /\ lesson' = loaded
  /\ UNCHANGED <<hookVars, step, autoPlaying, complete, message, autoPlayRef>>

(***************************************************************************)
(* lib/services/gameStorage.ts, and the RecordedGame that is saved.        *)
(***************************************************************************)
MAX_GAMES == 10

\* Date.now() when the n-th RecordedGame is made: two in the same millisecond
Timestamp(n) == (n + 1) \div 2

\* the n-th RecordedGame made: its id is unique
Stamped(recorded, n) == [ id |-> n, timestamp |-> Timestamp(n) ] @@ recorded

saveGame_uncapped(stored_, recorded) == << recorded >> \o stored_

\* saveGame(game): [game, ...stored].slice(0, MAX_GAMES)
saveGame(stored_, recorded) == Slice(<< recorded >> \o stored_, 0, MAX_GAMES)

\* deleteGame(gameId): stored.filter(g => g.id !== gameId)
deleteGame(stored_, gameId) == SelectSeq(stored_, LAMBDA g : g.id # gameId)

\* clearAllGames(): the key is removed, and read back as no games
clearAllGames == << >>

\* the deferred save fires: saveCompletedGame(gameResult) reads the live
\* game and the move qualities of the render that scheduled it
saveCompletedGame ==
  /\ Settled
  /\ saveTimers # << >>
  /\ LET t == Head(saveTimers)
         recorded == Stamped(RecordedGame(t.gameResult, History(game), t.moveQualities, t.of),
                             now + 1)
     IN  /\ stored' = saveGame(stored, recorded)
         /\ saves' = [ saves EXCEPT ![t.of] = Append(@, recorded) ]
  /\ now' = now + 1
  /\ saveTimers' = Tail(saveTimers)
  /\ sop' = "saveCompletedGame"

\* the bound on the number of games saved to the store
MaxSaves == 12

\* a finished game to save
DrawnGame == RecordedGame(PracticeResult("draw", Null), << >>, << >>, 1)

\* calls of the storage service
callSaveGame ==
  /\ now < MaxSaves
  /\ stored' = saveGame(stored, Stamped(DrawnGame, now + 1))
  /\ now' = now + 1
  /\ sop' = "saveGame"

callDeleteGame(gameId) ==
  /\ stored' = deleteGame(stored, gameId)
  /\ sop' = "deleteGame"
  /\ UNCHANGED now

callClearAllGames ==
  /\ stored' = clearAllGames
  /\ sop' = "clearAllGames"
  /\ UNCHANGED now

\* content of the store that JSON.parse rejects
Corrupt == << [ corrupt |-> TRUE ] >>

\* what a call of the storage service did: whether it threw, what it
\* returned, and which access to the store failed
Outcome(name, threw, value, readFailed, writeFailed) ==
  [ name |-> name, threw |-> threw, value |-> value,
    readFailed |-> readFailed, writeFailed |-> writeFailed ]

\* getStoredGames(): no games when the key is missing, when getItem throws
\* (readFails) and when JSON.parse throws
getStoredGames(content, readFails) ==
  IF readFails \/ content = Corrupt THEN << >> ELSE content

\* getStoredGames() called
readStore(readFails) ==
  /\ ret' = Outcome("getStoredGames", FALSE, getStoredGames(stored, readFails),
                    readFails \/ stored = Corrupt, FALSE)
  /\ sop' = "getStoredGames"
  /\ UNCHANGED <<stored, now>>

\* the bound on the number of saves tried on the failing store
MaxFaultySaves == 4

saveGameStore_clearsFirst(readFails, writeFails) ==
  /\ now < MaxFaultySaves
  /\ stored' = IF writeFails THEN << >>
               ELSE saveGame(getStoredGames(stored, readFails), Stamped(DrawnGame, now + 1))
  /\ ret' = Outcome("saveGame", FALSE, << >>, readFails \/ stored = Corrupt, writeFails)
  /\ now' = now + 1
  /\ sop' = "saveGame"

\* saveGame(game) with a store that may fail: setItem throws (writeFails)
\* without storing, and the catch block only warns
saveGameStore(readFails, writeFails) ==
  /\ now < MaxFaultySaves
  /\ stored' = IF writeFails THEN stored
               ELSE saveGame(getStoredGames(stored, readFails), Stamped(DrawnGame, now + 1))
  /\ ret' = Outcome("saveGame", FALSE, << >>, readFails \/ stored = Corrupt, writeFails)
  /\ now' = now + 1
  /\ sop' = "saveGame"

\* deleteGame(gameId) with a store that may fail
deleteGameStore(gameId, readFails, writeFails) ==
  /\ stored' = IF writeFails THEN stored
               ELSE deleteGame(getStoredGames(stored, readFails), gameId)
  /\ ret' = Outcome("deleteGame", FALSE, << >>, readFails \/ stored = Corrupt, writeFails)
  /\ sop' = "deleteGame"
  /\ UNCHANGED now

\* clearAllGames() with a store that may fail: removeItem throws
clearAllGamesStore(writeFails) ==
  /\ stored' = IF writeFails THEN stored ELSE clearAllGames
  /\ ret' = Outcome("clearAllGames", FALSE, << >>, FALSE, writeFails)
  /\ sop' = "clearAllGames"
  /\ UNCHANGED now

\* the content of the store is damaged from outside the program
storeCorrupted ==
  /\ stored # Corrupt
  /\ stored' = Corrupt
  /\ sop' = "none"
  /\ UNCHANGED <<now, ret>>

(***************************************************************************)
(* Inputs of the model.                                                    *)
(***************************************************************************)
MaxDrop == 260
MaxNegDrop == 20
MaxAnalysisPly == 3

\* the games of at most n plies
RECURSIVE GamesUpTo(_)
GamesUpTo(n) ==
  IF n = 0 THEN { NewChess }
  ELSE LET G == GamesUpTo(n - 1) IN
       G \cup UNION { { Apply(g, m) : m \in Range(Moves(g)) } : g \in G }

\* the games of exactly n plies, none of them over before its last ply
RECURSIVE LiveGames(_)
LiveGames(n) ==
  IF n = 0 THEN { NewChess }
  ELSE UNION { { Apply(g, m) : m \in Range(Moves(g)) } :
               g \in { h \in LiveGames(n - 1) : ~IsGameOver(h) } }

\* the bound on the length of a replayed game
MaxReplayPly == 24

\* the finished games in which a move of White was analysed
AnalysedGames ==
  { g \in UNION { LiveGames(n) : n \in (2 * AnalysisGate + 2) .. MaxReplayPly } :
      IsGameOver(g) }

\* the plies of g that handleSquareClick had analysed
AnalysedPlies(g) ==
  { i \in WhitePlies(g) : CeilHalf(i) > AnalysisGate /\ i < Len(g.hist) }

\* the evaluations before and after an analysed move, in quarter pawns, a
\* pair for each classification
ArrowEvals == { << 10, 10 >>, << 10, 8 >>, << 10, 6 >>, << 10, 2 >>, << 10, 0 >> }
StaleEvals == { << 10, 8 >>, << 10, 0 >> }

\* the quality of ply i of the game g under the evaluations e
QualityOfPly(b, g, i, e) ==
  LET before == ReplayFrom(NewChess, History(g), 1, i - 1)
      best == Uci(Moves(before)[1])
  IN  AfterSecondEval(
        AfterFirstEval(b, Fen(before), g.hist[i].move.san, CeilHalf(i),
                       EvalReply(TRUE, e[1], best)),
        EvalReply(TRUE, e[2], UndefinedStr))

\* the qualities of the analysed plies from..last of g, each there or not
RECURSIVE OwnQualities(_, _, _)
OwnQualities(b, g, from) ==
  IF from > Len(g.hist) THEN { << >> }
  ELSE IF from \notin AnalysedPlies(g) THEN OwnQualities(b, g, from + 1)
  ELSE LET rest == OwnQualities(b, g, from + 1) IN
       rest \cup { << QualityOfPly(b, g, from, e) >> \o r : e \in ArrowEvals, r \in rest }

\* the lists a snapshot may hold: the qualities of the game, after at most
\* one quality that an analysis of an earlier game left in the list
SnapshotQualities(b, g) ==
  LET stale == { << >> } \cup
        UNION { { << QualityOfPly(b, h, i, e) >> :
                    i \in AnalysedPlies(h), e \in StaleEvals } : h \in AnalysedGames }
  IN  { st \o own : st \in stale, own \in OwnQualities(b, g, 1) }

\* the replay states of the analysed games, and the idle one
ArrowReplayStates ==
  { IdleReplayState } \cup
  UNION { { [ isReplaying |-> TRUE, currentMoveIndex |-> k, isPlaying |-> FALSE,
              speed |-> DefaultSpeed,
              game |-> RecordedGame(GameOverResult(g), History(g), qs, 1) ] :
              k \in 0 .. Len(g.hist), qs \in SnapshotQualities(build, g) } :
          g \in AnalysedGames }

\* the number of steps of a lesson
LessonLen == 4

\* the lessons: the lines of LessonLen moves from the starting position,
\* White's and Black's steps alternating as in lib/lessons.ts
Lessons ==
  { [ steps |-> [ i \in 1 .. LessonLen |->
                    [ move |-> g.hist[i].move.san, side |-> g.hist[i].prev.turn ] ] ] :
      g \in { h \in GamesUpTo(LessonLen) : Len(h.hist) = LessonLen } }

\* the notations legal in a position, and one that is no move
SansFor(g) == { m.san : m \in Range(Moves(g)) } \cup { NoSan }

\* evaluations in quarter pawns: -1.5, +0.5 and +2.5 pawns
EvalValues == { -6, 2, 10 }

\* best moves the evaluator may name: none, a malformed one, one that is
\* well formed and illegal, a promotion without its piece, the legal ones
BestMovesFor(g) ==
  { UndefinedStr, << >>, << "x" >>, e1 \o e1, g7 \o h8 }
    \cup { Uci(m) : m \in Range(Moves(g)) }

EvalReplies(g) ==
  { EvalFail }
    \cup { EvalReply(FALSE, 0, u) : u \in BestMovesFor(g) }
    \cup { EvalReply(TRUE, e, u) : e \in EvalValues, u \in BestMovesFor(g) }

\* the evaluation is all that is read of the second reply
SecondEvalReplies ==
  { EvalFail, EvalReply(FALSE, 0, UndefinedStr) }
    \cup { EvalReply(TRUE, e, UndefinedStr) : e \in EvalValues }

\* game counts (white, draws, black) of the entries of a database reply, by rank
CountPatterns ==
  { << <<3, 1, 0>>, <<1, 1, 0>>, <<0, 0, 1>>, <<5, 5, 5>> >>,
    << <<0, 0, 0>>, <<0, 0, 0>>, <<0, 0, 0>>, <<0, 0, 0>> >>,
    << <<0, 0, 0>>, <<1, 0, 1>>, <<2, 0, 0>>, <<9, 0, 0>> >> }

\* the notations a database reply may hold for a position: up to three of
\* its legal moves, and one that is not legal in it
DbSansFor(g) ==
  { Moves(g)[i].san : i \in 1 .. Min(3, Len(Moves(g))) } \cup { NoSan }

Injective(f) == \A i, j \in DOMAIN f : i # j => f[i] # f[j]

DbListsFor(g) ==
  UNION { { [ i \in 1 .. n |-> DbEntry(f[i], c[i][1], c[i][2], c[i][3]) ] :
              f \in { h \in [ 1 .. n -> DbSansFor(g) ] : Injective(h) },
              c \in CountPatterns } :
          n \in 1 .. Cardinality(DbSansFor(g)) }

DbReplies(g) ==
  { DbFail, DbReply(FALSE, << >>), DbReply(TRUE, << >>) }
    \cup { DbReply(TRUE, l) : l \in DbListsFor(g) }

\* an earlier result of the analysis, still displayed
PriorQuality(b) ==
  AfterSecondEval(
    AfterFirstEval(b, Fen(NewChess), << "d", "4" >>, 1, EvalReply(TRUE, 2, d2 \o d4)),
    EvalReply(TRUE, 2, UndefinedStr))

(***************************************************************************)
(* Initial states.                                                         *)
(***************************************************************************)
EmptySnapshot ==
  [ fen |-> Fen(NewChess), history |-> << >>, lastMove |-> NullRec,
    selectedSquare |-> NullStr, legalMoves |-> << >> ]

InitHook ==
  /\ game = NewChess
  /\ boardKey = 0
  /\ selectedSquare = NullStr
  /\ legalMoves = << >>
  /\ lastMove = NullRec

InitLog ==
  /\ op = NoCall
  /\ opPrev = NoCall
  /\ ret = NullRec
  /\ pre = EmptySnapshot

InitLesson ==
  /\ lesson = NullRec
  /\ step = 0
  /\ autoPlaying = FALSE
  /\ complete = FALSE
  /\ message = ""
  /\ autoPlayRef = NullRec

InitCls ==
  /\ clsIn = 0
  /\ clsOut = Null

InitAn ==
  /\ build = "moveAnalysis.ts"
  /\ an = NullRec
  /\ anRet = NullRec
  /\ anLog = NullRec
  /\ moveQualities = << >>
  /\ lastMoveQuality = NullRec
  /\ analyzingMove = FALSE

InitAi ==
  /\ ai = NullRec
  /\ aiRet = NullStr
  /\ aiLog = NullRec

InitReplayState ==
  /\ replayState = IdleReplayState
  /\ replayTimer = NullRec
  /\ effectPending = FALSE

InitPractice ==
  /\ result = Playing
  /\ sop = "none"
  /\ saveTimers = << >>
  /\ aiTimers = << >>
  /\ aiReqs = << >>
  /\ stored = << >>
  /\ now = 0
  /\ gameNo = 1
  /\ ended = [ n \in 1 .. MaxGames |-> << >> ]
  /\ saves = [ n \in 1 .. MaxGames |-> << >> ]

InitScreen == InitReplayState /\ InitPractice

vars == <<hookVars, logVars, clsVars, lessonVars, anVars, aiVars, screenVars>>

(***************************************************************************)
(* Spec: the state manager under any sequence of calls.                    *)
(***************************************************************************)
Init == InitHook /\ InitLog /\ InitLesson /\ InitCls /\ InitAn /\ InitAi /\ InitScreen

Next ==
  \/ \E c \in CoordPairs : makeMove(c[1], c[2])
  \/ \E san \in Sans : makeMoveSan(san)
  \/ undoMove
  \/ resetGame
  \/ \E square \in Squares : selectSquare(square)
  \/ clearSelection

Spec == Init /\ [][Next]_vars

(***************************************************************************)
(* SpecClassify: classifyMove on every eval drop of a range.               *)
(***************************************************************************)
InitClassify ==
  /\ InitHook /\ InitLog /\ InitLesson /\ InitAn /\ InitAi /\ InitScreen
  /\ clsIn \in (0 - MaxNegDrop) .. MaxDrop
  /\ clsOut = Null

Classify ==
  /\ clsOut = Null
  /\ clsOut' = classifyMove(clsIn)
  /\ UNCHANGED <<clsIn, lessonVars, hookVars, logVars, anVars, aiVars, screenVars>>

SpecClassify == InitClassify /\ [][Classify]_vars

(***************************************************************************)
(* SpecAnalyze: one analysis of a move, legal or not, by either side, in   *)
(* a position of the first plies, with or without an earlier result.       *)
(***************************************************************************)
InitAnalyze ==
  /\ InitLog /\ InitLesson /\ InitCls /\ InitAi /\ InitScreen
  /\ game \in GamesUpTo(MaxAnalysisPly)
  /\ boardKey = 0
  /\ selectedSquare = NullStr
  /\ legalMoves = << >>
  /\ lastMove = NullRec
  /\ build \in Builds
  /\ an = NullRec
  /\ anRet = NullRec
  /\ anLog = NullRec
  /\ \/ moveQualities = << >> /\ lastMoveQuality = NullRec
     \/ moveQualities = << PriorQuality(build) >> /\ lastMoveQuality = PriorQuality(build)
  /\ analyzingMove = FALSE

NextAnalyze ==
  \/ /\ anLog = NullRec
     /\ \E san \in SansFor(game) : analyzePlayerMove(Fen(game), san)
     /\ UNCHANGED <<hookVars, logVars, clsVars, lessonVars, aiVars, screenVars>>
  \/ /\ an # NullRec
     /\ \E reply \in EvalReplies(Load(an.fen)) : FirstEvalReturns(reply)
     /\ UNCHANGED <<hookVars, logVars, clsVars, lessonVars, aiVars, screenVars>>
  \/ /\ \E reply \in SecondEvalReplies : SecondEvalReturns(reply)
     /\ UNCHANGED <<hookVars, logVars, clsVars, lessonVars, aiVars, screenVars>>

SpecAnalyze == InitAnalyze /\ [][NextAnalyze]_vars

(***************************************************************************)
(* SpecAI: getComputerMove on every game of at most MaxPly plies.          *)
(***************************************************************************)
InitAI ==
  /\ InitLog /\ InitLesson /\ InitCls /\ InitAn /\ InitAi /\ InitScreen
  /\ game \in GamesUpTo(MaxPly)
  /\ boardKey = 0
  /\ selectedSquare = NullStr
  /\ legalMoves = << >>
  /\ lastMove = NullRec

NextAI ==
  \/ /\ \E difficulty \in Difficulties : getComputerMove(difficulty)
     /\ UNCHANGED <<boardKey, selectedSquare, legalMoves, lastMove, logVars, clsVars, lessonVars, anVars, screenVars>>
  \/ /\ \E reply \in EvalReplies(game) : EvaluatorReturns(reply)
     /\ UNCHANGED <<boardKey, selectedSquare, legalMoves, lastMove, logVars, clsVars, lessonVars, anVars, screenVars>>
  \/ /\ \E reply \in DbReplies(game) : DatabaseReturns(reply)
     /\ UNCHANGED <<boardKey, selectedSquare, legalMoves, lastMove, logVars, clsVars, lessonVars, anVars, screenVars>>

SpecAI == InitAI /\ [][NextAI]_vars

(***************************************************************************)
(* SpecReplay: the replay of a finished game, from the moment it has its   *)
(* result to the exit from the replay.  The handlers of the replay bar are *)
(* called whenever the bar is shown, enabled or not.                       *)
(***************************************************************************)
FinishedGames == { g \in GamesUpTo(MaxPly) : IsGameOver(g) }

InitReplay ==
  /\ InitLog /\ InitLesson /\ InitCls /\ InitAi /\ InitReplayState
  /\ game \in FinishedGames
  /\ boardKey = Len(game.hist)
  /\ selectedSquare = NullStr
  /\ legalMoves = << >>
  /\ lastMove = [ from |-> game.hist[Len(game.hist)].move.from,
                  to |-> game.hist[Len(game.hist)].move.to ]
  /\ build \in Builds
  /\ an = NullRec
  /\ anRet = NullRec
  /\ anLog = NullRec
  /\ \/ moveQualities = << >> /\ lastMoveQuality = NullRec
     \/ moveQualities = << PriorQuality(build) >> /\ lastMoveQuality = NullRec
  /\ analyzingMove = FALSE
  /\ result = GameOverResult(game)
  /\ sop = "none"
  /\ saveTimers = << >>
  /\ aiTimers = << >>
  /\ aiReqs = << >>
  /\ stored = << Stamped(RecordedGame(result, History(game), moveQualities, 1), 1) >>
  /\ now = 1
  /\ gameNo = 1
  /\ ended = [ n \in 1 .. MaxGames |-> IF n = 1 THEN << game >> ELSE << >> ]
  /\ saves = [ n \in 1 .. MaxGames |->
                 IF n = 1 THEN << Stamped(RecordedGame(result, History(game), moveQualities, 1), 1) >>
                 ELSE << >> ]

NextReplay ==
  \/ /\ startReplay
     /\ UNCHANGED <<logVars, clsVars, lessonVars, aiVars, anVars,
                    saveTimers, aiTimers, aiReqs, stored, now, ended, saves>>
  \/ /\ toggleReplayPlayback
     /\ UNCHANGED <<logVars, clsVars, lessonVars, aiVars, anVars, hookVars,
                    result, saveTimers, aiTimers, aiReqs, stored, now, gameNo, ended, saves>>
  \/ /\ nextReplayMove
     /\ UNCHANGED <<logVars, clsVars, lessonVars, aiVars, anVars,
                    boardKey, selectedSquare, legalMoves, lastMove,
                    result, saveTimers, aiTimers, aiReqs, stored, now, gameNo, ended, saves>>
  \/ /\ prevReplayMove
     /\ UNCHANGED <<logVars, clsVars, lessonVars, aiVars, anVars, hookVars,
                    result, saveTimers, aiTimers, aiReqs, stored, now, gameNo, ended, saves>>
  \/ /\ \E speed \in REPLAY_SPEEDS : setReplaySpeedFn(speed)
     /\ UNCHANGED <<logVars, clsVars, lessonVars, aiVars, anVars, hookVars,
                    result, saveTimers, aiTimers, aiReqs, stored, now, gameNo, ended, saves>>
  \/ /\ autoAdvance
     /\ UNCHANGED <<logVars, clsVars, lessonVars, aiVars, anVars, hookVars,
                    result, saveTimers, aiTimers, aiReqs, stored, now, gameNo, ended, saves>>
  \/ /\ TimePasses
     /\ UNCHANGED <<logVars, clsVars, lessonVars, aiVars, anVars, hookVars,
                    result, saveTimers, aiTimers, aiReqs, stored, now, gameNo, ended, saves>>
  \/ /\ autoPlayEffect
     /\ UNCHANGED <<logVars, clsVars, lessonVars, aiVars, anVars, hookVars,
                    result, saveTimers, aiTimers, aiReqs, stored, now, gameNo, ended, saves>>
  \/ /\ replayState.isReplaying
     /\ \E square \in Squares : handleSquareClick(square)
     /\ UNCHANGED <<logVars, clsVars, lessonVars, aiVars, replayVars, aiReqs, stored, now, gameNo, saves>>
  \/ /\ exitReplay
     /\ UNCHANGED <<logVars, clsVars, lessonVars, aiVars, build, an, anRet, anLog,
                    saveTimers, aiTimers, aiReqs, stored, now, ended, saves>>

SpecReplay == InitReplay /\ [][NextReplay]_vars

\* the same with the effect run after every render that calls for it
SpecReplayFair == InitReplay /\ [][NextReplay]_vars /\ WF_replayVars(autoPlayEffect)

(***************************************************************************)
(* SpecPractice: games against the opponent at the default difficulty,     *)
(* whose selector awaits the opening database: clicks on the board, the    *)
(* timers of the opponent's reply and of the deferred save, the replies of *)
(* the selector, New Game, and entering and leaving the replay.            *)
(***************************************************************************)
PendingOpponent == Len(aiTimers) + Len(aiReqs)

\* the bound on the plies after which the human still clicks in SpecPractice
MaxRacePly == 9

\* the 600 ms timer of the opponent's reply fires
OpponentTimerFires ==
  /\ makeAIMove
  /\ UNCHANGED <<logVars, clsVars, lessonVars, aiVars, anVars, replayVars, stored, now, gameNo, saves>>

\* a request to the selector is answered
OpponentAnswers ==
  /\ \E i \in DOMAIN aiReqs : \E san \in aiReqs[i].sans \cup { NoSan } :
       makeAIMoveReturns(i, san)
  /\ UNCHANGED <<logVars, clsVars, lessonVars, aiVars, anVars, replayVars, stored, now, gameNo, saves>>

NextPractice ==
  \/ /\ PendingOpponent < MaxPending
     /\ Len(game.hist) < MaxRacePly
     /\ \E square \in Squares : handleSquareClick(square)
     /\ UNCHANGED <<logVars, clsVars, lessonVars, aiVars, replayVars, aiReqs, stored, now, gameNo, saves>>
  \/ OpponentTimerFires
  \/ OpponentAnswers
  \/ /\ saveCompletedGame
     /\ UNCHANGED <<logVars, clsVars, lessonVars, aiVars, anVars, hookVars, replayVars,
                    result, aiTimers, aiReqs, gameNo, ended>>
  \/ /\ newGame
     /\ UNCHANGED <<logVars, clsVars, lessonVars, aiVars, build, an, anRet, anLog, replayVars,
                    saveTimers, aiTimers, aiReqs, stored, now, ended, saves>>
  \/ /\ startReplay
     /\ UNCHANGED <<logVars, clsVars, lessonVars, aiVars, anVars,
                    saveTimers, aiTimers, aiReqs, stored, now, ended, saves>>
  \/ /\ autoPlayEffect
     /\ UNCHANGED <<logVars, clsVars, lessonVars, aiVars, anVars, hookVars,
                    result, saveTimers, aiTimers, aiReqs, stored, now, gameNo, ended, saves>>
  \/ /\ exitReplay
     /\ UNCHANGED <<logVars, clsVars, lessonVars, aiVars, build, an, anRet, anLog,
                    saveTimers, aiTimers, aiReqs, stored, now, ended, saves>>

SpecPractice == Init /\ [][NextPractice]_vars

\* the same, with every timer of the opponent firing and every request to
\* the selector answered in the end
SpecPracticeFair ==
  /\ Init
  /\ [][NextPractice]_vars
  /\ WF_vars(OpponentTimerFires)
  /\ WF_vars(OpponentAnswers)

(***************************************************************************)
(* SpecMiddlegame: games long enough for the analysis of White's moves,    *)
(* which starts with White's eleventh move.  The human clicks and presses  *)
(* New Game only while no timer or request of the opponent is pending (the *)
(* races of the opponent are left to SpecPractice), presses New Game only  *)
(* on their own turn in a running game, with no piece selected, while the  *)
(* screen shows an analysis running, and one analysis is in flight at a    *)
(* time; the evaluator answers the two requests of that analysis at any    *)
(* later moment.                                                           *)
(***************************************************************************)
\* the answers of the evaluator to the first and to the second request
MiddlegameFirstReplies == { EvalFail, EvalReply(TRUE, 2, UndefinedStr) }
MiddlegameSecondReplies == { EvalFail, EvalReply(TRUE, -6, UndefinedStr) }

\* the next move of White would be analysed
PastGate == CeilHalf(Len(game.hist) + 1) > AnalysisGate

NextMiddlegame ==
  \/ /\ PendingOpponent = 0
     /\ an = NullRec \/ ~PastGate
     /\ \E square \in Squares : handleSquareClick(square)
     /\ UNCHANGED <<logVars, clsVars, lessonVars, aiVars, replayVars, aiReqs, stored, now, gameNo, saves>>
  \/ OpponentTimerFires
  \/ OpponentAnswers
  \/ /\ PendingOpponent = 0
     /\ analyzingMove
     /\ Turn(game) = "w" /\ result.type = "playing" /\ selectedSquare = NullStr
     /\ newGame
     /\ UNCHANGED <<logVars, clsVars, lessonVars, aiVars, build, an, anRet, anLog, replayVars,
                    saveTimers, aiTimers, aiReqs, stored, now, ended, saves>>
  \/ /\ \E reply \in MiddlegameFirstReplies : FirstEvalReturns(reply)
     /\ UNCHANGED <<hookVars, logVars, clsVars, lessonVars, aiVars, screenVars>>
  \/ /\ \E reply \in MiddlegameSecondReplies : SecondEvalReturns(reply)
     /\ UNCHANGED <<hookVars, logVars, clsVars, lessonVars, aiVars, screenVars>>

SpecMiddlegame == Init /\ [][NextMiddlegame]_vars

(***************************************************************************)
(* SpecMiddlegameReplay: the same games, and the replay of a game that has *)
(* its result, stepped forward with the Next button.                       *)
(***************************************************************************)
NextMiddlegameReplay ==
  \/ NextMiddlegame
  \/ /\ PendingOpponent = 0
     /\ startReplay
     /\ UNCHANGED <<logVars, clsVars, lessonVars, aiVars, anVars,
                    saveTimers, aiTimers, aiReqs, stored, now, ended, saves>>
  \/ /\ nextReplayMove
     /\ UNCHANGED <<logVars, clsVars, lessonVars, aiVars, anVars,
                    boardKey, selectedSquare, legalMoves, lastMove,
                    result, saveTimers, aiTimers, aiReqs, stored, now, gameNo, ended, saves>>
  \/ /\ autoPlayEffect
     /\ UNCHANGED <<logVars, clsVars, lessonVars, aiVars, anVars, hookVars,
                    result, saveTimers, aiTimers, aiReqs, stored, now, gameNo, ended, saves>>

SpecMiddlegameReplay == Init /\ [][NextMiddlegameReplay]_vars

(***************************************************************************)
(* SpecStorage: calls of saveGame, deleteGame and clearAllGames.           *)
(***************************************************************************)
NextStorage ==
  \/ /\ callSaveGame
     /\ UNCHANGED <<hookVars, logVars, clsVars, lessonVars, anVars, aiVars, replayVars,
                    result, saveTimers, aiTimers, aiReqs, gameNo, ended, saves>>
  \/ /\ \E gameId \in 1 .. now + 1 : callDeleteGame(gameId)
     /\ UNCHANGED <<hookVars, logVars, clsVars, lessonVars, anVars, aiVars, replayVars,
                    result, saveTimers, aiTimers, aiReqs, gameNo, ended, saves>>
  \/ /\ callClearAllGames
     /\ UNCHANGED <<hookVars, logVars, clsVars, lessonVars, anVars, aiVars, replayVars,
                    result, saveTimers, aiTimers, aiReqs, gameNo, ended, saves>>

SpecStorage == Init /\ [][NextStorage]_vars

(***************************************************************************)
(* SpecStorageFaults: the storage service on a store whose reads and       *)
(* writes may fail and whose content may be unparsable.                    *)
(***************************************************************************)
NextStorageFaults ==
  \/ /\ \E readFails \in BOOLEAN : readStore(readFails)
     /\ UNCHANGED <<hookVars, op, opPrev, pre, clsVars, lessonVars, anVars, aiVars, replayVars,
                    result, saveTimers, aiTimers, aiReqs, gameNo, ended, saves>>
  \/ /\ \E readFails, writeFails \in BOOLEAN : saveGameStore(readFails, writeFails)
     /\ UNCHANGED <<hookVars, op, opPrev, pre, clsVars, lessonVars, anVars, aiVars, replayVars,
                    result, saveTimers, aiTimers, aiReqs, gameNo, ended, saves>>
  \/ /\ \E gameId \in 1 .. now + 1 : \E readFails, writeFails \in BOOLEAN :
          deleteGameStore(gameId, readFails, writeFails)
     /\ UNCHANGED <<hookVars, op, opPrev, pre, clsVars, lessonVars, anVars, aiVars, replayVars,
                    result, saveTimers, aiTimers, aiReqs, gameNo, ended, saves>>
  \/ /\ \E writeFails \in BOOLEAN : clearAllGamesStore(writeFails)
     /\ UNCHANGED <<hookVars, op, opPrev, pre, clsVars, lessonVars, anVars, aiVars, replayVars,
                    result, saveTimers, aiTimers, aiReqs, gameNo, ended, saves>>
  \/ /\ storeCorrupted
     /\ UNCHANGED <<hookVars, op, opPrev, pre, clsVars, lessonVars, anVars, aiVars, replayVars,
                    result, saveTimers, aiTimers, aiReqs, gameNo, ended, saves>>

SpecStorageFaults == Init /\ [][NextStorageFaults]_vars

(***************************************************************************)
(* SpecLesson: a guided lesson from the mount of LessonScreen, which       *)
(* startLesson shows with the game reset, to the completion of the lesson. *)
(***************************************************************************)
\* the bound on the renders of the board in a lesson
MaxLessonUpdates == 6

NextLesson ==
  \/ /\ \E loaded \in Lessons : loadLesson(loaded)
     /\ UNCHANGED <<logVars, clsVars, anVars, aiVars, screenVars>>
  \/ /\ boardKey < MaxLessonUpdates
     /\ \E square \in Squares : LessonScreen_handleSquareClick(square)
     /\ UNCHANGED <<logVars, clsVars, anVars, aiVars, screenVars>>
  \/ /\ autoPlay
     /\ UNCHANGED <<logVars, clsVars, anVars, aiVars, screenVars>>

SpecLesson == Init /\ [][NextLesson]_vars

(***************************************************************************)
(* SpecArrows: replayArrows on the replay states of the games in which a   *)
(* move of White was analysed, at every index, in both builds.             *)
(***************************************************************************)
InitArrows ==
  /\ InitHook /\ InitLog /\ InitLesson /\ InitCls /\ InitAi /\ InitPractice
  /\ build \in Builds
  /\ an = NullRec
  /\ anRet = NullRec
  /\ anLog = NullRec
  /\ moveQualities = << >>
  /\ lastMoveQuality = NullRec
  /\ analyzingMove = FALSE
  /\ replayState \in ArrowReplayStates
  /\ replayTimer = NullRec
  /\ effectPending = FALSE

computeReplayArrows ==
  /\ ret = NullRec
  /\ ret' = [ arrows |-> replayArrows(replayState) ]
  /\ UNCHANGED <<hookVars, op, opPrev, pre, clsVars, lessonVars, anVars, aiVars, screenVars>>

SpecArrows == InitArrows /\ [][computeReplayArrows]_vars

(***************************************************************************)
(* Properties of the state manager (Spec).                                 *)
(***************************************************************************)

\* C1: after any sequence of successfully applied moves on the live game,
\* replaying the recorded SAN history move by move from the initial position
\* into a fresh game yields a position whose FEN equals the live position's.
C1_ReplayReproducesFen ==
  Fen(replayGame(History(game), Len(History(game)))) = Fen(game)

\* a game of coordinate and SAN moves with a capture in it, replayed in full
C1_Witness ==
  /\ Len(History(game)) >= 3
  /\ \E i \in 1 .. Len(game.hist) : game.hist[i].move.captured # Undefined
  /\ op.name = "makeMove" /\ op.ok
  /\ opPrev.name = "makeMoveSan" /\ opPrev.ok
  /\ Len(replayGame(History(game), Len(History(game))).hist) = Len(game.hist)

\* C2: makeMove(from, to) with a pair that is not a legal move in the current
\* position returns null and leaves the position, the move history, the
\* last-move marker, the selected square and the legal-destination list
\* exactly as they were.
C2_IllegalMoveRejected ==
  (op.name = "makeMove" /\ ~op.legal) =>
    /\ ret = NullRec
    /\ Fen(game) = pre.fen
    /\ History(game) = pre.history
    /\ lastMove = pre.lastMove
    /\ selectedSquare = pre.selectedSquare
    /\ legalMoves = pre.legalMoves

\* an illegal pair tried in mid-game while a piece is selected
C2_Witness ==
  /\ op.name = "makeMove" /\ ~op.legal
  /\ ret = NullRec
  /\ pre.history # << >>
  /\ pre.lastMove # NullRec
  /\ pre.selectedSquare # NullStr
  /\ pre.legalMoves # << >>
  /\ selectedSquare = pre.selectedSquare

\* C3: undoMove called immediately after a successful makeMove or
\* makeMoveSan restores exactly the FEN and the move history that held
\* before that move.
C3_UndoRestores ==
  [][ ( /\ op.name \in { "makeMove", "makeMoveSan" }
        /\ op.ok
        /\ op'.name = "undoMove" )
      => ( Fen(game') = pre.fen /\ History(game') = pre.history ) ]_vars

\* an undo right after a successful move of a game under way
C3_Witness ==
  /\ op.name = "undoMove"
  /\ opPrev.name \in { "makeMove", "makeMoveSan" }
  /\ opPrev.ok
  /\ Len(pre.history) >= 2
  /\ Len(History(game)) = Len(pre.history) - 1
  /\ Fen(game) # pre.fen

\* C27: makeMoveSan keeps the contract of makeMove: on success it sets the
\* last-move marker to the move, clears the selected square and the
\* legal-destination list and signals a state change; on a notation that is
\* illegal or cannot be parsed it returns null and changes nothing.
C27_SanSameContract ==
  /\ (op.name = "makeMoveSan" /\ op.ok) =>
       /\ ret # NullRec
       /\ lastMove = [ from |-> ret.from, to |-> ret.to ]
       /\ selectedSquare = NullStr
       /\ legalMoves = << >>
       /\ History(game) = Append(pre.history, ret.san)
  /\ (op.name = "makeMoveSan" /\ ~op.ok) =>
       /\ ret = NullRec
       /\ Fen(game) = pre.fen
       /\ History(game) = pre.history
       /\ lastMove = pre.lastMove
       /\ selectedSquare = pre.selectedSquare
       /\ legalMoves = pre.legalMoves

\* C28: resetGame, from any reachable state, gives the standard initial
\* position with an empty history, no selected square, an empty
\* legal-destination list and no last-move marker.
C28_ResetClearsAll ==
  op.name = "resetGame" =>
    /\ Fen(game) = Fen(NewChess)
    /\ History(game) = << >>
    /\ selectedSquare = NullStr
    /\ legalMoves = << >>
    /\ lastMove = NullRec

\* a reset in mid-game while a piece is selected
C28_Witness ==
  /\ op.name = "resetGame"
  /\ pre.history # << >>
  /\ pre.lastMove # NullRec
  /\ pre.selectedSquare # NullStr
  /\ pre.legalMoves # << >>
  /\ History(game) = << >>

(***************************************************************************)
(* Properties of the classifier (SpecClassify).                            *)
(***************************************************************************)
Rank(classification) ==
  CASE classification = "excellent" -> 0
    [] classification = "good" -> 1
    [] classification = "inaccuracy" -> 2
    [] classification = "mistake" -> 3
    [] classification = "blunder" -> 4

\* C4: classifyMove maps an eval drop d to excellent if d <= 25, good if
\* 25 < d <= 50, inaccuracy if 50 < d <= 100, mistake if 100 < d <= 200,
\* blunder if d > 200; so 25 is excellent, 26 and 50 good, 51 and 100
\* inaccuracy, 101 and 200 mistake, 201 blunder; and the classification
\* never improves as d grows.
C4_Thresholds ==
  clsOut # Null =>
    /\ (clsIn <= 25) <=> (clsOut = "excellent")
    /\ (25 < clsIn /\ clsIn <= 50) <=> (clsOut = "good")
    /\ (50 < clsIn /\ clsIn <= 100) <=> (clsOut = "inaccuracy")
    /\ (100 < clsIn /\ clsIn <= 200) <=> (clsOut = "mistake")
    /\ (clsIn > 200) <=> (clsOut = "blunder")
    /\ clsIn = 25 => clsOut = "excellent"
    /\ clsIn \in { 26, 50 } => clsOut = "good"
    /\ clsIn \in { 51, 100 } => clsOut = "inaccuracy"
    /\ clsIn \in { 101, 200 } => clsOut = "mistake"
    /\ clsIn = 201 => clsOut = "blunder"
    /\ \A d \in (0 - MaxNegDrop) .. clsIn : Rank(classifyMove(d)) <= Rank(clsOut)

\* the inclusive upper boundary of mistake
C4_Witness == clsIn = 200 /\ clsOut = "mistake"

(***************************************************************************)
(* Properties of the move analysis (SpecAnalyze).                          *)
(***************************************************************************)
\* the analysis has been called and has returned to its caller
AnalysisDone == anLog # NullRec /\ an = NullRec

\* C5: every MoveQuality returned by analyzeMoveQuality has
\* evalDrop = max(0, evalBefore - evalAfter), hence evalDrop >= 0, and
\* whenever evalBefore - evalAfter is negative the classification is
\* excellent.
C5_DropClamped ==
  anRet # NullRec =>
    /\ anRet.evalDrop = Max(0, anRet.evalBefore - anRet.evalAfter)
    /\ anRet.evalDrop >= 0
    /\ (anRet.evalBefore - anRet.evalAfter < 0) => (anRet.classification = "excellent")

\* a result whose raw difference is negative
C5_Witness ==
  /\ anRet # NullRec
  /\ anRet.evalBefore - anRet.evalAfter < 0
  /\ anRet.evalDrop = 0
  /\ anRet.classification = "excellent"

\* how much worse the position got for the side that moved, the scores
\* being White's
DropForMover(mover, evalBefore, evalAfter) ==
  IF mover = "w" THEN evalBefore - evalAfter ELSE evalAfter - evalBefore

\* C6: for a move by either side, the evaluator's scores being from White's
\* perspective, the recorded eval drop is the drop from the perspective of
\* the side that moved: it is positive exactly when the position got worse
\* for the mover (for a Black move, when White's score rose), and a score of
\* +50 before and -150 after for the mover gives evalDrop 200, mistake.
C6_DropFromMoversPerspective ==
  anRet # NullRec =>
    LET worse == DropForMover(Turn(Load(anLog.fen)), anRet.evalBefore, anRet.evalAfter) IN
    /\ (anRet.evalDrop > 0) <=> (worse > 0)
    /\ anRet.evalDrop = Max(0, worse)
    /\ worse = 200 => (anRet.evalDrop = 200 /\ anRet.classification = "mistake")

\* C7: if either evaluator request fails, or the played move cannot be
\* applied to the clone of the position before it, analyzeMoveQuality
\* returns null; the caller then appends nothing to moveQualities, leaves
\* lastMoveQuality as it was, and clears the analyzing flag.
C7_FailedAnalysisLeavesState ==
  ( /\ AnalysisDone
    /\ (FALSE \in Range(anLog.replies) \/ ~anLog.moveLegal) ) =>
    /\ anRet = NullRec
    /\ moveQualities = anLog.priorQualities
    /\ lastMoveQuality = anLog.priorLast
    /\ analyzingMove = FALSE

\* the second request fails while an earlier result is displayed
C7_Witness ==
  /\ AnalysisDone
  /\ anLog.replies = << TRUE, FALSE >>
  /\ anLog.moveLegal
  /\ anRet = NullRec
  /\ anLog.priorLast # NullRec
  /\ lastMoveQuality = anLog.priorLast
  /\ Len(moveQualities) = 1
  /\ ~analyzingMove

\* C31: when the best move named by the evaluator cannot be converted to
\* algebraic notation (it is missing, malformed or no legal move of the
\* position before the move), analyzeMoveQuality still returns a
\* MoveQuality, whose bestMove is the raw value of the evaluator: with both
\* no request failed and the played move legal the result is never null.
Convertible(fen, raw) == \E m \in Range(Moves(Load(fen))) : Uci(m) = raw

C31_RawBestMoveKept ==
  ( /\ AnalysisDone
    /\ anLog.replies # << >>
    /\ FALSE \notin Range(anLog.replies)
    /\ anLog.moveLegal
    /\ ~Convertible(anLog.fen, anLog.raw) ) =>
    /\ anRet # NullRec
    /\ anRet.bestMove = anLog.raw

(***************************************************************************)
(* Properties of the opponent selector (SpecAI).                           *)
(***************************************************************************)
\* getComputerMove has been called and has returned
SelectorDone == aiLog # NullRec /\ ai = NullRec

\* C8, as amended: getComputerMove at difficulty beginner, on any position
\* where the game is not over, returns a member of the legal-move set of
\* that position; where the game is over, be it by a draw rule that leaves
\* legal moves, it returns null.
C8_BeginnerLegalUnlessOver ==
  (SelectorDone /\ aiLog.difficulty = "beginner") =>
    IF IsGameOver(game) THEN aiRet = NullStr ELSE LegalSan(game, aiRet)

\* C8, as claimed: getComputerMove at difficulty beginner, on any position
\* with at least one legal move, returns a member of the legal-move set of
\* that position.
C8_BeginnerLegalWheneverMoves ==
  (SelectorDone /\ aiLog.difficulty = "beginner" /\ Moves(game) # << >>) =>
    LegalSan(game, aiRet)

\* a random choice in a position with several legal moves, not the first
C8_Witness ==
  /\ SelectorDone
  /\ aiLog.difficulty = "beginner"
  /\ aiLog.path = "random"
  /\ Len(Moves(game)) >= 3
  /\ LegalSan(game, aiRet)
  /\ aiRet = Moves(game)[Len(Moves(game))].san

\* C9: getComputerMove at difficulty advanced, when the evaluator request
\* fails or returns a missing, malformed or illegal best move, falls back
\* to the intermediate strategy and returns a move that is legal in the
\* current position whenever a legal move exists; it never returns null
\* while a legal move exists.
C9_AdvancedFallbackLegal ==
  ( /\ SelectorDone
    /\ aiLog.difficulty = "advanced"
    /\ aiLog.evalBad
    /\ Moves(game) # << >> ) =>
    /\ aiLog.fellBack
    /\ aiRet # NullStr
    /\ LegalSan(game, aiRet)

\* C10: getComputerMove at difficulty intermediate returns a move that is
\* legal in the current position whenever a legal move exists, both when
\* the reply is taken from the database's ranked continuations and when
\* the heuristic fallback is used.
C10_IntermediateLegal ==
  ( /\ SelectorDone
    /\ aiLog.difficulty = "intermediate"
    /\ Moves(game) # << >> ) =>
    LegalSan(game, aiRet)

\* the game counts of the first k entries of a ranked list
RECURSIVE CumulativeGames(_, _)
CumulativeGames(top, k) ==
  IF k = 0 THEN 0 ELSE CumulativeGames(top, k - 1) + GamesOf(top[k])

MinOf(S) == CHOOSE x \in S : \A y \in S : x <= y

\* C29: at difficulty intermediate, when the database returns a non-empty
\* ranked list, the reply is one of its first three moves: with r drawn from
\* [0, T), T the sum of the game counts of the first three, it is the first
\* in rank order whose cumulative game count reaches r; no move ranked
\* fourth or lower is the reply.
C29_WeightedTopThree ==
  (SelectorDone /\ aiLog.path = "book") =>
    LET moves == aiLog.drawn.moves
        top == Slice(moves, 0, 3)
        reached == { k \in 1 .. Len(top) :
                       2 * CumulativeGames(top, k) >= aiLog.drawn.rand }
    IN  /\ reached # {}
        /\ aiRet = top[MinOf(reached)].san
        /\ \A i \in 4 .. Len(moves) : aiRet # moves[i].san

\* the third of four ranked moves is drawn
C29_Witness ==
  /\ SelectorDone
  /\ aiLog.difficulty = "intermediate"
  /\ aiLog.path = "book"
  /\ Len(aiLog.drawn.moves) = 4
  /\ GamesOf(aiLog.drawn.moves[1]) > 0
  /\ GamesOf(aiLog.drawn.moves[3]) > 0
  /\ aiRet = aiLog.drawn.moves[3].san

\* whether the move gives check: the side to move after it is in check
GivesCheck(m) == RuleBook[m.next].inCheck

\* the heuristic score: jitter, 30 for a capture, 20 for a check, 15 for a
\* central square, 5 for a square next to the centre
ClaimedScore(m, jitter) ==
  jitter
  + (IF m.captured # Undefined THEN 30 ELSE 0)
  + (IF GivesCheck(m) THEN 20 ELSE 0)
  + (IF m.to \in CentreSquares THEN 15 ELSE 0)
  + (IF m.to \in NearCentreSquares THEN 5 ELSE 0)

\* C30: at difficulty intermediate, when the database request fails or
\* returns no moves, the reply is a legal move with the highest heuristic
\* score; so a move that neither captures nor gives check is never the reply
\* when a capture is available.
C30_HeuristicMaximum ==
  (SelectorDone /\ aiLog.path = "heuristic") =>
    LET moves == aiLog.drawn.moves
        jitter == aiLog.drawn.jitter
    IN  /\ LegalSan(game, aiRet)
        /\ \E i \in DOMAIN moves :
             /\ moves[i].san = aiRet
             /\ \A j \in DOMAIN moves :
                  ClaimedScore(moves[j], jitter[j]) <= ClaimedScore(moves[i], jitter[i])
        /\ (\E j \in DOMAIN moves : moves[j].captured # Undefined) =>
             \E i \in DOMAIN moves :
               /\ moves[i].san = aiRet
               /\ (moves[i].captured # Undefined \/ GivesCheck(moves[i]))

(***************************************************************************)
(* Properties of the replay (SpecReplay, SpecReplayFair).                  *)
(***************************************************************************)
\* the snapshot of the replay and the number of its moves
ReplaySnapshot == replayState.game
SnapshotLen == Len(replayState.game.moveHistory)

\* the position the finished game g had after its first k moves
PositionAfter(g, k) ==
  IF k >= Len(g.hist) THEN Fen(g)
  ELSE << g.hist[k + 1].prev.board, g.hist[k + 1].prev.turn,
          g.hist[k + 1].prev.halfMoves, g.hist[k + 1].prev.moveNumber >>

\* a step of the handler that leaves its name in sop
HandlerStep(name) == Settled /\ sop' = name /\ replayTimer' = replayTimer

\* C11: in every reachable replay state whose snapshot has N moves the
\* current move index is between 0 and N, and nextReplayMove at index N and
\* prevReplayMove at index 0 leave the state unchanged, whatever manual
\* steps and auto-advance ticks came before.
C11_IndexWithinSnapshot ==
  /\ [](ReplayBarShown =>
          replayState.currentMoveIndex \in 0 .. SnapshotLen)
  /\ [][ /\ (HandlerStep("nextReplayMove") /\ ReplayBarShown
               /\ replayState.currentMoveIndex = SnapshotLen)
            => (replayState' = replayState /\ ~effectPending' /\ game' = game)
         /\ (HandlerStep("prevReplayMove") /\ ReplayBarShown
               /\ replayState.currentMoveIndex = 0)
            => (replayState' = replayState /\ ~effectPending' /\ game' = game)
       ]_vars

C11_Witness ==
  /\ ReplayBarShown /\ Settled
  /\ sop = "nextReplayMove"
  /\ replayState.currentMoveIndex = SnapshotLen
  /\ SnapshotLen >= 2

\* C12: while the replay is playing the auto-advance never moves the index
\* past N; once the index is N while playing, also because play was toggled
\* on at N, the replay eventually is reviewing again (isPlaying false) and
\* no tick is scheduled.
C12_PlaybackStopsAtEnd ==
  /\ [](ReplayBarShown => replayState.currentMoveIndex <= SnapshotLen)
  /\ [](ReplayBarShown /\ Settled /\ replayState.currentMoveIndex = SnapshotLen
          => ~replayState.isPlaying /\ replayTimer = NullRec)
  /\ (ReplayBarShown /\ replayState.isPlaying
        /\ replayState.currentMoveIndex = SnapshotLen)
       ~> (ReplayBarShown /\ ~replayState.isPlaying /\ replayTimer = NullRec
             /\ replayState.currentMoveIndex = SnapshotLen)

C12_Witness ==
  /\ ReplayBarShown /\ Settled
  /\ sop = "autoAdvance"
  /\ replayState.currentMoveIndex = SnapshotLen
  /\ ~replayState.isPlaying
  /\ replayTimer = NullRec

\* C13: the board shown at replay index K is the position the finished game
\* had after its first K moves: it depends on the snapshot's moves and K
\* only, not on the steps that led to K.
C13_BoardIsPrefixPosition ==
  ReplayBarShown =>
    Fen(replayGame(ReplaySnapshot.moveHistory, replayState.currentMoveIndex))
      = PositionAfter(ended[ReplaySnapshot.of][1], replayState.currentMoveIndex)

C13_Witness ==
  /\ ReplayBarShown /\ Settled
  /\ sop = "prevReplayMove"
  /\ replayState.currentMoveIndex = 3
  /\ SnapshotLen > 3

\* C14: while a replay is on, stepping, toggling playback, changing the
\* speed, the auto-advance ticks and clicks on the board leave the position
\* and the history of the live game as they are.
C14_LiveGameUntouched ==
  [][ (replayState.isReplaying /\ replayState'.isReplaying)
        => (Fen(game') = Fen(game) /\ History(game') = History(game)) ]_vars

C14_Witness ==
  /\ ReplayBarShown
  /\ sop = "autoAdvance"
  /\ replayState.currentMoveIndex >= 1
  /\ Fen(game) = Fen(NewChess)
  /\ History(game) = << >>

\* C15: the replay state is always idle (not replaying, not playing, no
\* snapshot, index 0), reviewing (replaying, not playing, a snapshot) or
\* playing (replaying, playing, a snapshot): it never plays without
\* replaying.
C15_ThreeShapes ==
  \/ /\ ~replayState.isReplaying /\ ~replayState.isPlaying
     /\ replayState.game = NullRec /\ replayState.currentMoveIndex = 0
  \/ /\ replayState.isReplaying /\ ~replayState.isPlaying
     /\ replayState.game # NullRec
  \/ /\ replayState.isReplaying /\ replayState.isPlaying
     /\ replayState.game # NullRec

C15_Witness ==
  /\ sop = "exitReplay"
  /\ replayState = IdleReplayState
  /\ effectPending
  /\ replayTimer # NullRec

\* C16: startReplay on a finished game gives the reviewing state at index 0
\* whose snapshot holds the complete move history of the finished game, which
\* is not empty, and the move qualities accumulated: the snapshot is taken
\* before the live game is reset.
C16_SnapshotBeforeReset ==
  sop = "startReplay" =>
    /\ replayState.isReplaying /\ ~replayState.isPlaying
    /\ replayState.currentMoveIndex = 0
    /\ ReplaySnapshot # NullRec
    /\ ReplaySnapshot.moveHistory = History(ended[ReplaySnapshot.of][1])
    /\ ReplaySnapshot.moveHistory # << >>
    /\ ReplaySnapshot.moveQualities = moveQualities
    /\ ReplaySnapshot.moveQualities = saves[ReplaySnapshot.of][1].moveQualities

C16_Witness ==
  /\ sop = "startReplay"
  /\ Len(ReplaySnapshot.moveHistory) >= 4
  /\ ReplaySnapshot.moveQualities # << >>
  /\ History(game) = << >>

\* C17: exitReplay, from reviewing or playing and at any index, gives the
\* idle replay state with the live game at the initial position with an
\* empty history, the result playing, and the selection, the last-move
\* marker and the move qualities cleared.
C17_ExitResets ==
  sop = "exitReplay" =>
    /\ replayState = IdleReplayState
    /\ Fen(game) = Fen(NewChess)
    /\ History(game) = << >>
    /\ result = Playing
    /\ selectedSquare = NullStr
    /\ legalMoves = << >>
    /\ lastMove = NullRec
    /\ moveQualities = << >>
    /\ lastMoveQuality = NullRec

C17_Witness ==
  /\ sop = "exitReplay"
  /\ Settled
  /\ replayTimer = NullRec
  /\ saves[1][1].moveQualities # << >>
  /\ moveQualities = << >>

\* C18: setSpeed changes the speed field only, and a tick that is scheduled
\* when the speed is set still fires at the time it was scheduled for: the
\* new speed applies to the ticks scheduled after it.
C18_ScheduledTickKeepsItsTime ==
  [][ /\ (HandlerStep("setReplaySpeedFn") /\ ReplayBarShown)
         => \E speed \in REPLAY_SPEEDS :
              replayState' = [ replayState EXCEPT !.speed = speed ]
      /\ (sop = "setReplaySpeedFn" /\ effectPending /\ ~effectPending'
            /\ replayTimer # NullRec)
         => replayTimer' = replayTimer
    ]_vars

(***************************************************************************)
(* Properties of the games against the opponent (SpecPractice).            *)
(***************************************************************************)
\* the deferred saves not yet run that were scheduled when game n ended
PendingSaves(n) == Len(SelectSeq(saveTimers, LAMBDA t : t.of = n))

\* C19: each game that reaches a terminal state has exactly one RecordedGame
\* saved for it, the save that is still deferred counted: never none and
\* never two, whichever side made the ending move and whatever timers and
\* opponent requests are pending.
C19_ExactlyOneSave ==
  \A n \in 1 .. MaxGames :
    Len(saves[n]) + PendingSaves(n) = (IF ended[n] = << >> THEN 0 ELSE 1)

\* C20: every saved RecordedGame holds in moveHistory the moves that were
\* played in the game it records, as many as its half-moves, also when New
\* Game or Replay This Game is pressed between the ending move and the
\* deferred save.
C20_SavedHistoryIsPlayed ==
  \A i \in DOMAIN stored :
    \E k \in DOMAIN ended[stored[i].of] :
      /\ stored[i].moveHistory = History(ended[stored[i].of][k])
      /\ Len(stored[i].moveHistory) = Len(ended[stored[i].of][k].hist)

(***************************************************************************)
(* C26: in a game against the opponent a click that attempts an illegal    *)
(* move (a piece is selected, White is to move, the game is being played,  *)
(* and the clicked square is neither an own piece nor a destination of     *)
(* the selected piece) is rejected with nothing changed: the position,     *)
(* the history, the last-move marker, the selected square, the list of    *)
(* legal destinations and the displayed quality of the last move.          *)
(***************************************************************************)
IllegalAttempt(square) ==
  /\ ~replayState.isReplaying
  /\ Turn(game) = "w"
  /\ result.type = "playing"
  /\ selectedSquare # NullStr
  /\ Get(game, square) # Turn(game)
  /\ MatchCoord(game, selectedSquare, square, "q") = << >>

C26_IllegalClickChangesNothing ==
  [][ \A square \in Squares :
        (IllegalAttempt(square) /\ handleSquareClick(square)) =>
          UNCHANGED <<game, lastMove, selectedSquare, legalMoves, lastMoveQuality>> ]_vars

(***************************************************************************)
(* C23: a move of the opponent is requested only after the human move was  *)
(* applied and the game-over check has run (so with Black to move) and     *)
(* only in a position that is not terminal; and no move of the opponent is *)
(* applied to a position in which the game is over.                        *)
(***************************************************************************)
OpponentRequested == sop' = "makeAIMove" /\ Len(aiReqs') > Len(aiReqs)
OpponentApplied == sop' = "makeAIMoveReturns" /\ game' # game

C23_OpponentOnlyInLivePosition ==
  [][ /\ OpponentRequested => (Turn(game) = "b" /\ ~IsGameOver(game))
      /\ OpponentApplied => (~IsGameOver(game) /\ result.type = "playing") ]_vars


(***************************************************************************)
(* C25: after every human move that leaves a position that is not          *)
(* terminal, a move of the opponent is applied in the end and the turn is  *)
(* White's again, whatever the selector's services answer, when every      *)
(* timer fires and every call returns or fails.                            *)
(***************************************************************************)
HumanMoved ==
  /\ sop = "handleSquareClick"
  /\ Turn(game) = "b"
  /\ ~IsGameOver(game)
  /\ Len(game.hist) < MaxRacePly
  /\ aiTimers # << >>
  /\ aiTimers[Len(aiTimers)].of = gameNo

C25_OpponentMovesInTheEnd == HumanMoved ~> (Turn(game) = "w")

(***************************************************************************)
(* C34: the opponent routine plays Black only: makeAIMove applies a move   *)
(* to the live game only when it is Black's turn there, also when New Game *)
(* was pressed while a reply was pending.                                  *)
(***************************************************************************)
C34_OpponentPlaysBlackOnly ==
  [][ OpponentApplied => (Turn(game) = "b" /\ Turn(game') = "w") ]_vars

\* the requests whose return this step may be: the ones taken from aiReqs
ReturnedRequests == { i \in DOMAIN aiReqs : aiReqs' = Without(aiReqs, i) }

(***************************************************************************)
(* C35: a reply of the opponent is applied only to the position it was     *)
(* selected for: when makeAIMove applies a move, the live position is the  *)
(* one the selector was called with, also after New Game reset the board.  *)
(***************************************************************************)
C35_ReplyAppliedWhereSelected ==
  [][ OpponentApplied =>
        \E i \in ReturnedRequests : aiReqs[i].fen = Fen(game) ]_vars

(***************************************************************************)
(* C39: getComputerMove leaves the game as it found it: from the call to   *)
(* the return, at every difficulty and on every path, the game object has  *)
(* the position and the history it had at the call; the probe move of the  *)
(* advanced path is undone before the return.                              *)
(***************************************************************************)
C39_SelectorLeavesGame ==
  aiLog # NullRec => game = aiLog.before

\* the advanced path returned the evaluator's move after probing it on a
\* game with moves played
C39_Witness ==
  /\ aiLog # NullRec
  /\ ai = NullRec
  /\ aiLog.path = "engine"
  /\ aiLog.difficulty = "advanced"
  /\ aiRet \in { m.san : m \in Range(Moves(game)) }
  /\ game.hist # << >>
  /\ game = aiLog.before

(***************************************************************************)
(* Properties of the analysis of White's moves in a game (SpecMiddlegame)  *)
(***************************************************************************)
\* the moves of White among the plies of a game
WhiteMovesOf(g) == { i \in 1 .. Len(g.hist) : g.hist[i].prev.turn = "w" }

\* a quality was appended to the accumulated list in this step
QualityRecorded == Len(moveQualities') = Len(moveQualities) + 1

(***************************************************************************)
(* C21: the accumulated list of move qualities holds at most one entry     *)
(* for each move number, also when an analysis started in one game         *)
(* completes after New Game has started the next.                          *)
(***************************************************************************)
C21_OneQualityPerMove ==
  \A i, j \in DOMAIN moveQualities :
    moveQualities[i].moveNumber = moveQualities[j].moveNumber => i = j

AnalysisStarted == an' # NullRec /\ an' # an /\ an'.pc = "before"

(***************************************************************************)
(* C37: an analysis is started only by a move of White that leaves a       *)
(* position where the game goes on, and only when more than ten moves of   *)
(* White were played; every entry of the accumulated list has a move       *)
(* number of 11 or more, and no entry was produced from a move that ended  *)
(* a game.                                                                 *)
(***************************************************************************)
C37_AnalysedPastTheGate ==
  [][ /\ AnalysisStarted =>
           /\ Turn(game) = "w" /\ Turn(game') = "b"
           /\ Len(game'.hist) = Len(game.hist) + 1
           /\ ~IsGameOver(game')
           /\ result'.type = "playing"
           /\ Cardinality(WhiteMovesOf(game')) > AnalysisGate
      /\ \A i \in DOMAIN moveQualities' :
           moveQualities'[i].moveNumber >= AnalysisGate + 1
      /\ QualityRecorded => ~IsGameOver(anLog.game) ]_vars

\* qualities of White's 11th and 12th move are in the list of a game that
\* the next move, of the opponent, ended
C37_Witness ==
  /\ Len(moveQualities) = 2
  /\ moveQualities[1].moveNumber = AnalysisGate + 1
  /\ moveQualities[2].moveNumber = AnalysisGate + 2
  /\ result.type # "playing"

\* the last move of White in the game g, as a sequence of at most one ply
LastWhitePly(g) ==
  IF WhiteMovesOf(g) = {} THEN << >>
  ELSE << CHOOSE i \in WhiteMovesOf(g) : \A j \in WhiteMovesOf(g) : j <= i >>

(***************************************************************************)
(* C36: a displayed last-move quality describes the most recent move of    *)
(* White in the current game: it has that move's number and notation,      *)
(* also when the result of an analysis arrives after New Game.             *)
(***************************************************************************)
C36_LastQualityIsOfLastMove ==
  lastMoveQuality # NullRec =>
    /\ LastWhitePly(game) # << >>
    /\ lastMoveQuality.moveNumber = Cardinality(WhiteMovesOf(game))
    /\ lastMoveQuality.move = game.hist[LastWhitePly(game)[1]].move.san

(***************************************************************************)
(* Properties of the store of recorded games (SpecStorage).                *)
(***************************************************************************)
\* C22: after any sequence of saveGame, deleteGame and clearAllGames the
\* stored list holds at most 10 games, newest first; saving when 10 are
\* stored puts the new game at the front and drops the oldest one only.
C22_CappedNewestFirst ==
  /\ [](/\ Len(stored) <= MAX_GAMES
        /\ \A i, j \in DOMAIN stored :
             i < j => /\ stored[i].id > stored[j].id
                      /\ stored[i].timestamp >= stored[j].timestamp)
  /\ [][ (sop' = "saveGame" /\ now' = now + 1 /\ Len(stored) = MAX_GAMES)
           => /\ Len(stored') = MAX_GAMES
              /\ stored'[1].id = now'
              /\ SubSeq(stored', 2, MAX_GAMES) = SubSeq(stored, 1, MAX_GAMES - 1) ]_vars

C22_Witness ==
  /\ sop = "saveGame"
  /\ Len(stored) = 10
  /\ now >= 12
  /\ stored[1].id = now
  /\ \E i \in 1 .. 9 : stored[i].id > stored[i + 1].id + 1


(***************************************************************************)
(* C32: when the store fails on a read or on a write (it is unavailable,   *)
(* its quota is exceeded, its content is unparsable), none of saveGame,    *)
(* getStoredGames, deleteGame and clearAllGames throws; getStoredGames     *)
(* returns the empty list; and a write that fails is skipped: the stored   *)
(* content and the state of the game in memory are as before.              *)
(***************************************************************************)
StorageCalled == sop' \in { "saveGame", "getStoredGames", "deleteGame", "clearAllGames" }

C32_StoreFailuresAreSkipped ==
  [][ StorageCalled =>
        /\ ~ret'.threw
        /\ (ret'.name = "getStoredGames" /\ ret'.readFailed) => ret'.value = << >>
        /\ ret'.writeFailed => stored' = stored
        /\ (ret'.readFailed \/ ret'.writeFailed) =>
             UNCHANGED <<game, result, moveQualities, lastMoveQuality, gameNo>> ]_vars

\* a save was skipped on a store that holds games, after a failed read
\* had returned no games
C32_Witness ==
  /\ ret # NullRec
  /\ ret.name = "saveGame"
  /\ ret.writeFailed
  /\ Len(stored) >= 2
  /\ stored # Corrupt
  /\ now > stored[1].id

(***************************************************************************)
(* Properties of the guided lesson (SpecLesson).                           *)
(***************************************************************************)
\* a click on square tries a legal move (a pawn promoting to a queen) other
\* than the step's expected one
WrongAttempt(square) ==
  /\ ~autoPlaying /\ ~complete /\ lesson # NullRec
  /\ step < Len(lesson.steps)
  /\ StepAt(step).side = "w"
  /\ selectedSquare # NullStr
  /\ \E m \in Range(MatchCoord(game, selectedSquare, square, "q")) :
       m.san # StepAt(step).move

\* the expected move of the current step is played on the board
ExpectedPlayed ==
  /\ lesson # NullRec /\ step < Len(lesson.steps)
  /\ Len(game'.hist) = Len(game.hist) + 1
  /\ SubSeq(game'.hist, 1, Len(game.hist)) = game.hist
  /\ game'.hist[Len(game'.hist)].move.san = StepAt(step).move

(***************************************************************************)
(* C40: in a guided lesson a legal move that is not the expected move of   *)
(* the step leaves the position and the history as they were, the step     *)
(* index where it was and no auto-play of the opponent scheduled; the step *)
(* index moves only when the expected move of the step is played.          *)
(***************************************************************************)
C40_WrongMoveTakenBack ==
  [][ /\ \A square \in Squares :
           (WrongAttempt(square) /\ LessonScreen_handleSquareClick(square)) =>
             /\ game' = game
             /\ UNCHANGED <<lesson, step, autoPlaying, complete, autoPlayRef, lastMove>>
      /\ step' # step => ExpectedPlayed ]_vars

\* a wrong move was tried at the third step of a lesson and taken back
C40_Witness ==
  /\ lesson # NullRec
  /\ message = NotQuite
  /\ step = 2
  /\ Len(game.hist) = 2
  /\ boardKey = 3
  /\ ~autoPlaying /\ autoPlayRef = NullRec

(***************************************************************************)
(* Properties of the arrows of the replay (SpecArrows).                    *)
(***************************************************************************)
Inferior == { "inaccuracy", "mistake", "blunder" }

(***************************************************************************)
(* C33: at index K of a replay arrows are shown only if K is 1 or more,    *)
(* K - 1 is even, that is the move that reached index K is White's, and    *)
(* the snapshot holds a quality with move number (K - 1)/2 + 1 classified  *)
(* inaccuracy, mistake or blunder; nothing is shown at index 0, on a move  *)
(* of Black, or when the quality found for the index is excellent or good. *)
(***************************************************************************)
C33_ArrowsOnInferiorWhiteMoves ==
  ret # NullRec =>
    LET K == replayState.currentMoveIndex IN
    /\ ret.arrows # << >> =>
         /\ replayState.isReplaying
         /\ K >= 1
         /\ (K - 1) % 2 = 0
         /\ K \in WhitePlies(ReplayFrom(NewChess, replayState.game.moveHistory, 1, K))
         /\ \E q \in Range(replayState.game.moveQualities) :
              /\ q.moveNumber = (K - 1) \div 2 + 1
              /\ q.classification \in Inferior
    /\ ( \/ ~replayState.isReplaying
         \/ K = 0
         \/ (K - 1) % 2 # 0
         \/ /\ replayQuality(replayState) # NullRec
            /\ replayQuality(replayState).classification \in { "excellent", "good" } )
         => ret.arrows = << >>

\* both arrows are shown at index 23 of a replay, for White's 12th move
C33_Witness ==
  /\ ret # NullRec
  /\ Len(ret.arrows) = 2
  /\ replayState.currentMoveIndex = 2 * AnalysisGate + 3
  /\ replayQuality(replayState).moveNumber = AnalysisGate + 2

(***************************************************************************)
(* Properties of the replay of an analysed game (SpecMiddlegameReplay).    *)
(***************************************************************************)
\* C38: the quality found for index K of a replay is the one of the move
\* that reached index K in the replayed game: it carries the notation of
\* moveHistory[K - 1] and the number of that move of White, and is no
\* quality of another game or of another move.
C38_QualityOfTheReplayedMove ==
  replayQuality(replayState) # NullRec =>
    LET K == replayState.currentMoveIndex
        replayed == replayState.game
    IN  /\ K \in DOMAIN replayed.moveHistory
        /\ replayQuality(replayState).move = replayed.moveHistory[K]
        /\ replayQuality(replayState).moveNumber = CeilHalf(K)

====
